---- MODULE Spec2Model ----
(***************************************************************************)
(* State-machine model of the GPAC reframer filter                         *)
(* (src/src/filters/reframer.c).                                           *)
(*                                                                         *)
(* The filter's context (GF_ReframerCtx) is the variable ctx, its stream   *)
(* table (RTStream) the variable st.  The host pipeline (input pids, the   *)
(* packets they carry, reference counts, outputs) is the variables src,    *)
(* inp, refs, out and eos_out.  Every callback of the filter register      *)
(* (configure_pid, process, process_event, finalize) is one action, which  *)
(* runs the whole callback.                                                *)
(*                                                                         *)
(* Unsigned 64-bit fields are represented by their two's complement        *)
(* residue: a negative model value v stands for 2^64 + v.  Addition,       *)
(* subtraction and multiplication are exact on residues; the signed        *)
(* (s64) reading of a field is the residue itself.                         *)
(*                                                                         *)
(* A function of the source is an operator from the state before (a world  *)
(* record W: filter and host state) to the state after.  The locals of a   *)
(* function are named in order with With(value, LAMBDA name : rest).       *)
(***************************************************************************)
EXTENDS Integers, Sequences, FiniteSets, TLC

VARIABLES ctx, st, src, inp, refs, out, eos_out, gh, ret, alive, env

vars == <<ctx, st, src, inp, refs, out, eos_out, gh, ret, alive, env>>

(***************************************************************************)
(* Bounds of the model                                                     *)
(***************************************************************************)
NStreams == 2
\* host events (stop, play again, reconfigure, remove, finalize) a session
\* with host events receives
MaxEvents == 1
\* packets an input pid buffers ahead of the filter
MaxBuffer == 1
\* process is no longer called once this many chunks have been numbered
MaxFiles == 6
MaxClock == 3
\* the system clock advances by steps of ClockStep microseconds
ClockStep == 100000
\* the number of values of a u32 variable, 2^32 in the source, scaled to 2^16
\* so that the products of two values stay within the integers of the
\* model checker
Word == 65536

Pids == 1..NStreams

(***************************************************************************)
(* Enumerations and constants of the source                                *)
(***************************************************************************)
REFRAME_RT_OFF == 0
REFRAME_RT_ON == 1
REFRAME_RT_SYNC == 2

REFRAME_ROUND_BEFORE == 0
REFRAME_ROUND_AFTER == 1
REFRAME_ROUND_CLOSEST == 2

RANGE_NONE == 0
RANGE_CLOSED == 1
RANGE_OPEN == 2
RANGE_DONE == 3

EXTRACT_NONE == 0
EXTRACT_RANGE == 1
EXTRACT_SAP == 2
EXTRACT_SIZE == 3
EXTRACT_DUR == 4

RT_PRECISION_US == 2000

GF_OK == "GF_OK"
GF_EOS == "GF_EOS"
GF_NOT_SUPPORTED == "GF_NOT_SUPPORTED"

\* GF_FILTER_NO_TS: the "unknown timestamp" value of a packet
NO_TS == -1
\* a NULL packet pointer
NoPck == <<0, 0, 0>>

ABS(x) == IF x < 0 THEN -x ELSE x

\* a < b read as unsigned 64-bit values, on two's complement residues
U64Lt(a, b) == IF (a < 0) = (b < 0) THEN a < b ELSE b < 0

Frac(n, d) == [num |-> n, den |-> d]

\* With(v, LAMBDA x : e) is e with x naming the value v: a local binding
With(v, F(_)) == F(v)

\* the same for several values that do not depend on one another
With2(v1, v2, F(_, _)) == F(v1, v2)

With3(v1, v2, v3, F(_, _, _)) == F(v1, v2, v3)

With4(v1, v2, v3, v4, F(_, _, _, _)) == F(v1, v2, v3, v4)

With5(v1, v2, v3, v4, v5, F(_, _, _, _, _)) == F(v1, v2, v3, v4, v5)

\* A while loop: Step is applied to x until Done holds.  Repeat makes at most
\* 2^k steps, by halves, and While doubles the count until the loop is over,
\* so that the evaluation nests with the logarithm of the trip count.
RECURSIVE Repeat(_, _, _, _)
Repeat(Done(_), Step(_), x, k) ==
    IF Done(x) THEN x
    ELSE IF k = 0 THEN Step(x)
    ELSE Repeat(Done, Step, Repeat(Done, Step, x, k - 1), k - 1)

RECURSIVE WhileFrom(_, _, _, _)
WhileFrom(Done(_), Step(_), x, k) ==
    IF Done(x) THEN x
    ELSE WhileFrom(Done, Step, Repeat(Done, Step, x, k), k + 1)

While(Done(_), Step(_), x) == WhileFrom(Done, Step, x, 0)

(***************************************************************************)
(* Boundary strings (GF_PropStringList xs, xe), by their lexical form      *)
(***************************************************************************)
\* "T[h:]m:s[.ms]"
DateT(h, m, s, ms) == [k |-> "T", h |-> h, m |-> m, s |-> s, ms |-> ms]
\* "F<n>"
DateF(n) == [k |-> "F", n |-> n]
\* "SAP" or "RAP"
DateSAP == [k |-> "SAP"]
\* "D<num>/<den>"
DateD(n, d) == [k |-> "D", num |-> n, den |-> d]
\* "D<ms>"
DateDms(v) == [k |-> "Dms", v |-> v]
\* "S<size>"
DateS(sz) == [k |-> "S", size |-> sz]
\* "<num>/<den>", "<int>": what gf_parse_lfrac accepts
DateFrac(n, d) == [k |-> "frac", num |-> n, den |-> d]
\* anything else
DateBad == [k |-> "bad"]

\* reframer_parse_date: value, frame index and extraction mode of a string.
\* frame is the caller's *frame_idx_plus_one, left untouched unless "F".
reframer_parse_date(date, frame) ==
    CASE date.k = "T" ->
               With( IF date.ms >= 1000 THEN 0 ELSE date.ms, LAMBDA ms :
               With( (date.h * 3600 + date.m * 60 + date.s) * 1000 + ms, LAMBDA v :
              [ok |-> TRUE, value |-> Frac(v, 1000), frame |-> frame,
               mode |-> EXTRACT_RANGE]))
      [] date.k = "F" ->
           [ok |-> TRUE, value |-> Frac(0, 0), frame |-> 1 + date.n,
            mode |-> EXTRACT_RANGE]
      [] date.k = "SAP" ->
           [ok |-> TRUE, value |-> Frac(0, 1000), frame |-> frame,
            mode |-> EXTRACT_SAP]
      [] date.k = "D" ->
           [ok |-> TRUE, value |-> Frac(date.num, date.den), frame |-> frame,
            mode |-> EXTRACT_DUR]
      [] date.k = "Dms" ->
           [ok |-> TRUE, value |-> Frac(date.v, 1000), frame |-> frame,
            mode |-> EXTRACT_DUR]
      [] date.k = "S" ->
           [ok |-> TRUE, value |-> Frac(0, date.size), frame |-> frame,
            mode |-> EXTRACT_SIZE]
      [] date.k = "frac" ->
           [ok |-> TRUE, value |-> Frac(date.num, date.den), frame |-> frame,
            mode |-> EXTRACT_RANGE]
      [] OTHER ->
           [ok |-> FALSE, value |-> Frac(0, 0), frame |-> frame,
            mode |-> EXTRACT_NONE]

(***************************************************************************)
(* Host pipeline: packets and pids                                         *)
(***************************************************************************)
\* a packet as the filter reads it: timestamps, duration, SAP type (0: none),
\* data size, "not used as reference" dependency flag
Pck(dts, cts, dur, sap, size, nonref) ==
    [dts |-> dts, cts |-> cts, dur |-> dur, sap |-> sap, size |-> size,
     nonref |-> nonref]

\* a packet handle is <<pid, generation of the pid's input, index in the source>>
PckData(W, h) == W.src[h[1]].pcks[h[3]]

\* gf_filter_pck_get_dts, falling back on gf_filter_pck_get_cts
PckTs(p) == IF p.dts = NO_TS THEN p.cts ELSE p.dts

\* gf_filter_pck_ref / gf_filter_pck_unref: the references the filter holds
pck_ref(W, h) ==
    [W EXCEPT !.refs =
        IF h \in DOMAIN @ THEN [@ EXCEPT ![h] = @ + 1] ELSE @ @@ (h :> 1)]

pck_unref(W, h) ==
    [W EXCEPT !.refs =
        IF h \in DOMAIN @
        THEN IF @[h] = 1 THEN [x \in (DOMAIN @) \ {h} |-> @[x]]
             ELSE [@ EXCEPT ![h] = @ - 1]
        ELSE @ @@ (h :> -1)]

\* gf_filter_pid_get_packet: the packet at the head of the input, if delivered
pid_get_packet(W, s) ==
    With(    W.inp[s], LAMBDA i :
    IF i.discard \/ i.pos >= i.avail \/ i.pos >= Len(W.src[s].pcks)
    THEN NoPck ELSE <<s, i.gen, i.pos + 1>>)

\* gf_filter_pid_drop_packet
pid_drop_packet(W, s) ==
    IF pid_get_packet(W, s) = NoPck THEN W
    ELSE [W EXCEPT !.inp[s].pos = @ + 1]

\* gf_filter_pid_is_eos: end of stream signalled and nothing left to read
pid_is_eos(W, s) ==
    With(    W.inp[s], LAMBDA i :
    i.avail > Len(W.src[s].pcks) /\ (i.discard \/ i.pos >= Len(W.src[s].pcks)))

\* gf_filter_pck_is_blocking_ref
pck_is_blocking_ref(W, s) == W.src[s].blocking

\* the source's answer to STOP then PLAY(start_range): it restarts at the last
\* sync packet at or before start_range seconds (its first packet otherwise)
RECURSIVE SeekPos(_, _, _, _)
SeekPos(pcks, timescale, start_range, i) ==
    IF i = 0 THEN 0
    ELSE IF pcks[i].sap # 0
            /\ PckTs(pcks[i]) * start_range.den <= start_range.num * timescale
         THEN i - 1
         ELSE SeekPos(pcks, timescale, start_range, i - 1)

pid_seek(W, s, start_range) ==
    With(     SeekPos(W.src[s].pcks, W.src[s].timescale, start_range,
                      Len(W.src[s].pcks)), LAMBDA p0 :
       [W.inp[s] EXCEPT !.gen = @ + 1, !.pos = p0, !.avail = p0,
                        !.stopped = FALSE, !.seeks = @ + 1])

(***************************************************************************)
(* RTStream and GF_ReframerCtx                                             *)
(***************************************************************************)
\* GF_SAFEALLOC(st, RTStream): every field zero
ZeroStream ==
    [timescale |-> 0, cts_us_at_init |-> 0, sys_clock_at_init |-> 0,
     nb_frames |-> 0, can_split |-> FALSE, all_saps |-> FALSE,
     needs_adjust |-> FALSE, use_blocking_refs |-> FALSE,
     ts_at_range_start_plus_one |-> 0, ts_at_range_end |-> 0,
     pck_queue |-> <<>>, range_start_computed |-> 0,
     range_end_reached_ts |-> 0, prev_sap_ts |-> 0, prev_sap_frame_idx |-> 0,
     nb_frames_range |-> 0, sap_ts_plus_one |-> 0, first_pck_sent |-> FALSE,
     tk_delay |-> 0, in_eos |-> FALSE, split_start |-> 0, split_end |-> 0,
     split_pck |-> NoPck, reinsert_single_pck |-> NoPck, is_playing |-> FALSE,
     codec_id |-> "none", stream_type |-> "unknown", nb_ch |-> 0,
     sample_rate |-> 0, abps |-> 0, audio_planar |-> FALSE,
     audio_samples_to_keep |-> 0]

\* the filter's private context before reframer_initialize, with its arguments
ZeroCtx(args) ==
    [frames |-> args.frames, refs |-> args.refs, rt |-> args.rt,
     speed |-> args.speed, raw |-> args.raw, xs |-> args.xs, xe |-> args.xe,
     nosap |-> args.nosap, splitrange |-> args.splitrange,
     xadjust |-> args.xadjust, tcmdrw |-> args.tcmdrw, xround |-> args.xround,
     seeksafe |-> args.seeksafe, saps |-> args.saps, nprops |-> args.nprops,
     filter_sap1 |-> FALSE, filter_sap2 |-> FALSE, filter_sap3 |-> FALSE,
     filter_sap4 |-> FALSE, filter_sap_none |-> FALSE,
     streams |-> <<>>, clock |-> 0, reschedule_in |-> 0, clock_val |-> 0,
     range_type |-> RANGE_NONE, cur_range_idx |-> 0,
     cur_start |-> Frac(0, 0), cur_end |-> Frac(0, 0),
     start_frame_idx_plus_one |-> 0, end_frame_idx_plus_one |-> 0,
     in_range |-> FALSE, seekable |-> FALSE, extract_dur |-> Frac(0, 0),
     extract_mode |-> EXTRACT_NONE, is_range_extraction |-> FALSE,
     file_idx |-> 0, min_ts_computed |-> 0, min_ts_scale |-> 0,
     split_size |-> 0, est_file_size |-> 0, prev_min_ts_computed |-> 0,
     prev_min_ts_scale |-> 0, gop_depth |-> 0,
     wait_video_range_adjust |-> FALSE, has_seen_eos |-> FALSE,
     eos_state |-> 0, nb_non_saps |-> 0,
     nb_video_frames_since_start_at_range_start |-> 0,
     nb_video_frames_since_start |-> 0]

\* the streams of the stream table, in table order
StreamAt(W, i) == W.ctx.streams[i]
Count(W) == Len(W.ctx.streams)

(***************************************************************************)
(* reframer_load_range                                                     *)
(***************************************************************************)
\* the range_done label: every stream of the table is discarded, stopped and
\* its output set to end of stream
range_done(W) ==
    With(          { W.ctx.streams[i] : i \in 1..Len(W.ctx.streams) }, LAMBDA inTable :
    [W EXCEPT !.ctx.range_type = RANGE_DONE,
              !.inp = [s \in Pids |->
                         IF s \in inTable
                         THEN [@[s] EXCEPT !.discard = TRUE, !.stopped = TRUE]
                         ELSE @[s]],
              !.eos_out = [s \in Pids |-> @[s] \/ s \in inTable]])

\* play start sent with a seek: the range start minus the seek safety, or 0
SeekStart(c) ==
    IF c.cur_start.den # 0
       /\ c.cur_start.num > c.seeksafe * c.cur_start.den
    THEN Frac(c.cur_start.num - c.seeksafe * c.cur_start.den, c.cur_start.den)
    ELSE Frac(0, 1)

\* lines 442-463: does reaching the new start need a seek
do_seek_decision(c, prev_frame, prev_end) ==
    With(     c.seekable, LAMBDA d0 :
    With(     IF c.start_frame_idx_plus_one # 0
              THEN (IF c.start_frame_idx_plus_one > prev_frame THEN TRUE ELSE d0)
              ELSE IF prev_end.den = 0 THEN TRUE
              ELSE     With(IF c.cur_start.num * prev_end.den
                                < prev_end.num * c.cur_start.den
                            THEN TRUE ELSE d0, LAMBDA a :
                      IF c.cur_start.num * prev_end.den
                          < (prev_end.num + c.seeksafe * prev_end.den)
                            * c.cur_start.den
                      THEN FALSE ELSE a), LAMBDA d1 :
       IF c.cur_range_idx = 1 THEN FALSE ELSE d1))

\* lines 504-539: clock anchors, seek events and audio split state per stream
load_range_reset(W, do_seek, reset_asplit) ==
    With(    W.ctx, LAMBDA c :
    With(          { c.streams[i] : i \in 1..Len(c.streams) }, LAMBDA inTable :
    With(     [W EXCEPT
                 !.ctx.has_seen_eos = IF do_seek THEN FALSE ELSE @,
                 !.st = [s \in Pids |->
                    IF s \in inTable
                    THEN [@[s] EXCEPT
                            !.cts_us_at_init = IF c.rt # 0 THEN 0 ELSE @,
                            !.sys_clock_at_init = IF c.rt # 0 THEN 0 ELSE @,
                            !.audio_samples_to_keep =
                                IF reset_asplit THEN 0 ELSE @]
                    ELSE @[s]]], LAMBDA W1 :
    With(     [W1 EXCEPT !.inp = [s \in Pids |->
                    IF s \in inTable THEN pid_seek(W1, s, SeekStart(c))
                    ELSE @[s]]], LAMBDA W2 :
       IF (c.rt # 0) \/ do_seek \/ reset_asplit
       THEN (IF do_seek THEN W2 ELSE W1)
       ELSE W))))

\* the end date chosen from the xe list only
range_end_date_xe_only(c) ==
    [has_end |-> c.cur_range_idx < Len(c.xe),
     date |-> IF c.cur_range_idx < Len(c.xe) THEN c.xe[c.cur_range_idx + 1]
              ELSE DateBad]

\* lines 421-427: the end date of the range of (0-based) index cur_range_idx
range_end_date(c) ==
    [has_end |-> (c.cur_range_idx < Len(c.xe))
                 \/ (c.cur_range_idx + 1 < Len(c.xs)),
     date |-> IF c.cur_range_idx < Len(c.xe) THEN c.xe[c.cur_range_idx + 1]
              ELSE IF c.cur_range_idx + 1 < Len(c.xs)
              THEN c.xs[c.cur_range_idx + 2]
              ELSE DateBad]

\* lines 405-552: the next start/end pair of the xs/xe lists
load_range_explicit(W, c0) ==
    With3(            c0.cur_end,
                      W.ctx.start_frame_idx_plus_one,
              [c0 EXCEPT !.start_frame_idx_plus_one = 0,
                         !.end_frame_idx_plus_one = 0,
                         !.cur_start = Frac(0, 0), !.cur_end = Frac(0, 0)],
                             LAMBDA prev_end, prev_frame, c1 :
    With4(       Len(c1.xs),
               c1.cur_range_idx,
                   range_end_date(c1).has_end,
                    range_end_date(c1).date, LAMBDA count, idx, has_end, end_date :
    With(     reframer_parse_date(c1.xs[idx + 1], c1.start_frame_idx_plus_one), LAMBDA ps :
    With(     [c1 EXCEPT !.cur_range_idx = @ + 1,
                         !.range_type = IF has_end THEN RANGE_CLOSED
                                        ELSE RANGE_OPEN,
                         !.cur_start = ps.value,
                         !.start_frame_idx_plus_one = ps.frame,
                         !.extract_mode = ps.mode], LAMBDA c2 :
    With2(         do_seek_decision(c2, prev_frame, prev_end),
              [c2 EXCEPT !.is_range_extraction =
                             (c2.extract_mode \in {EXTRACT_RANGE, EXTRACT_DUR})],
                                 LAMBDA do_seek, c3 :
    With2(    CASE c3.extract_mode = EXTRACT_DUR ->
                     [c3 EXCEPT !.extract_dur = c3.cur_start,
                                !.cur_start = Frac(0, c3.cur_start.den),
                                !.cur_end = c3.cur_start,
                                !.range_type = RANGE_CLOSED,
                                !.file_idx = 1,
                                !.splitrange = TRUE, !.xadjust = TRUE]
                [] c3.extract_mode = EXTRACT_SIZE ->
                     [c3 EXCEPT !.splitrange = TRUE,
                                !.split_size = c3.cur_start.den,
                                !.file_idx = IF c3.cur_start.den = 0 THEN @
                                             ELSE 1]
                [] c3.extract_mode = EXTRACT_SAP ->
                     [c3 EXCEPT !.splitrange = TRUE]
                [] OTHER -> c3,
                   has_end /\ c3.extract_mode = EXTRACT_RANGE, LAMBDA c4, use_end :
    With(     reframer_parse_date(end_date, c4.end_frame_idx_plus_one), LAMBDA pe :
    With(     IF use_end
              THEN [c4 EXCEPT !.cur_end = pe.value,
                              !.end_frame_idx_plus_one = pe.frame,
                              !.range_type = IF pe.ok THEN @ ELSE RANGE_OPEN]
              ELSE c4, LAMBDA c5 :
    With(               ~(prev_end.den # 0
                          /\ prev_end.num * c5.cur_start.den
                             = prev_end.den * c5.cur_start.num), LAMBDA reset_asplit :
       IF count = 0
       THEN (IF c1.range_type # RANGE_NONE
             THEN range_done([W EXCEPT !.ctx = c1])
             ELSE [W EXCEPT !.ctx = c1])
       ELSE IF idx >= count
       THEN range_done([W EXCEPT !.ctx = c1])
       ELSE IF ~ps.ok
       THEN [W EXCEPT !.ctx = [c2 EXCEPT !.range_type = RANGE_DONE]]
       ELSE IF ~c2.seekable /\ do_seek
       THEN range_done([W EXCEPT !.ctx = c2])
       ELSE IF c3.extract_mode = EXTRACT_SIZE /\ c4.split_size = 0
       THEN range_done([W EXCEPT !.ctx = c4])
       ELSE load_range_reset([W EXCEPT !.ctx = c5], do_seek, reset_asplit))))))))))

reframer_load_range(W) ==
    With(     [W.ctx EXCEPT !.nb_video_frames_since_start_at_range_start =
                                W.ctx.nb_video_frames_since_start], LAMBDA c0 :
       IF c0.extract_mode = EXTRACT_DUR
       THEN [W EXCEPT !.ctx = [c0 EXCEPT
                !.cur_start.num = @ + (c0.extract_dur.num * c0.cur_start.den)
                                       \div c0.extract_dur.den,
                !.cur_end.num = @ + (c0.extract_dur.num * c0.cur_end.den)
                                     \div c0.extract_dur.den,
                !.file_idx = @ + 1]]
       ELSE IF c0.extract_mode \in {EXTRACT_SAP, EXTRACT_SIZE}
       THEN [W EXCEPT !.ctx = [c0 EXCEPT !.cur_start = c0.cur_end,
                                         !.min_ts_computed = 0,
                                         !.min_ts_scale = 0,
                                         !.file_idx = @ + 1]]
       ELSE load_range_explicit(W, c0))

(***************************************************************************)
(* reframer_check_pck_range, reframer_purge_queues                         *)
(***************************************************************************)
\* nb_samp of lines 884-888 and 896-900: samples of the packet before the
\* boundary b, in the stream's sample rate
samples_before(S, b, ts) ==
    With(    (b.num * S.timescale) \div b.den - ts, LAMBDA n :
       IF S.timescale # S.sample_rate
       THEN (n * S.sample_rate) \div S.timescale ELSE n)

\* reframer_check_pck_range comparing the truncated quotients at the range end
reframer_check_pck_range_trunc(c, S, ts, dur, frame_idx) ==
    IF c.start_frame_idx_plus_one # 0
    THEN [r |-> IF frame_idx < c.start_frame_idx_plus_one THEN 0
                ELSE IF c.range_type # RANGE_OPEN
                        /\ frame_idx >= c.end_frame_idx_plus_one THEN 2
                ELSE 1,
          keep |-> 0]
    ELSE
          With(       ts * c.cur_start.den < c.cur_start.num * S.timescale, LAMBDA lt_start :
          With(             lt_start /\ S.abps # 0
                /\ (ts + dur) * c.cur_start.den > c.cur_start.num * S.timescale,
                    LAMBDA straddle_start :
          With3(    lt_start /\ ~straddle_start,
                   IF straddle_start THEN samples_before(S, c.cur_start, ts)
                   ELSE 0,
                   c.range_type # RANGE_OPEN
                /\ (ts + dur) \div S.timescale > c.cur_end.num \div c.cur_end.den,
                    LAMBDA before, keep1, after :
          With(           after /\ S.abps # 0
                /\ ts * c.cur_end.den < c.cur_end.num * S.timescale, LAMBDA straddle_end :
          With(    IF straddle_end THEN samples_before(S, c.cur_end, ts)
                   ELSE keep1, LAMBDA keep2 :
         [r |-> IF before THEN (IF after THEN 2 ELSE 0)
                ELSE IF after THEN 2 ELSE 1,
          keep |-> keep2])))))

\* r: 0 before the range, 1 inside, 2 spanning or past its end;
\* keep: *nb_audio_samples_to_keep (0 when the function leaves it alone)
reframer_check_pck_range(c, S, ts, dur, frame_idx) ==
    IF c.start_frame_idx_plus_one # 0
    THEN [r |-> IF frame_idx < c.start_frame_idx_plus_one THEN 0
                ELSE IF c.range_type # RANGE_OPEN
                        /\ frame_idx >= c.end_frame_idx_plus_one THEN 2
                ELSE 1,
          keep |-> 0]
    ELSE
          With(       ts * c.cur_start.den < c.cur_start.num * S.timescale, LAMBDA lt_start :
          With(             lt_start /\ S.abps # 0
                /\ (ts + dur) * c.cur_start.den > c.cur_start.num * S.timescale,
                    LAMBDA straddle_start :
          With3(    lt_start /\ ~straddle_start,
                   IF straddle_start THEN samples_before(S, c.cur_start, ts)
                   ELSE 0,
                   c.range_type # RANGE_OPEN
                /\ (ts + dur) * c.cur_end.den > c.cur_end.num * S.timescale,
                    LAMBDA before, keep1, after :
          With(           after /\ S.abps # 0
                /\ ts * c.cur_end.den < c.cur_end.num * S.timescale, LAMBDA straddle_end :
          With(    IF straddle_end THEN samples_before(S, c.cur_end, ts)
                   ELSE keep1, LAMBDA keep2 :
         [r |-> IF before THEN (IF after THEN 2 ELSE 0)
                ELSE IF after THEN 2 ELSE 1,
          keep |-> keep2])))))

\* the while loop of reframer_purge_queues on one stream: one iteration, and
\* the loop
purge_packet(W, s, ts_rescale) ==
    With(    W.st[s], LAMBDA S :
    IF S.pck_queue = <<>> THEN [W |-> W, stop |-> TRUE]
    ELSE     With(Head(S.pck_queue), LAMBDA h :
             With(PckData(W, h), LAMBDA p :
            IF PckTs(p) + p.dur >= ts_rescale THEN [W |-> W, stop |-> TRUE]
            ELSE [W |-> pck_unref([W EXCEPT !.st[s].pck_queue = Tail(@),
                                            !.st[s].nb_frames = @ + 1], h),
                  stop |-> FALSE])))

purge_stream(W, s, ts_rescale) ==
    While(LAMBDA x : x.stop,
          LAMBDA x : purge_packet(x.W, s, ts_rescale),
          [W |-> W, stop |-> FALSE]).W

RECURSIVE purge_queues_from(_, _, _, _)
purge_queues_from(W, i, ts, timescale) ==
    IF i > Count(W) THEN W
    ELSE     With(StreamAt(W, i), LAMBDA s :
             With(W.st[s], LAMBDA S :
             With(         IF S.timescale # timescale
                           THEN (ts * S.timescale) \div timescale ELSE ts, LAMBDA ts_rescale :
             With( IF S.reinsert_single_pck # NoPck THEN W
                   ELSE purge_stream(W, s, ts_rescale), LAMBDA W1 :
            purge_queues_from(W1, i + 1, ts, timescale)))))

reframer_purge_queues(W, ts, timescale) == purge_queues_from(W, 1, ts, timescale)

(***************************************************************************)
(* reframer_drop_packet, reframer_copy_raw_audio, reframer_send_packet     *)
(***************************************************************************)
\* pck_is_ref: the head of the stream's queue is removed and the packet
\* released; otherwise the head of the stream's input is dropped
reframer_drop_packet(W, s, h, pck_is_ref) ==
    IF pck_is_ref
    THEN pck_unref([W EXCEPT !.st[s].pck_queue =
                        IF @ = <<>> THEN @ ELSE Tail(@)], h)
    ELSE pid_drop_packet(W, s)

\* the memcpy calls of reframer_copy_raw_audio: the source byte offset copied
\* to each destination byte offset, in destination order (both 0-based);
\* the destination index of element i of the result is dst_at[i]
copy_raw_audio_src(S, src_size, offset, nb_samp) ==
    IF S.audio_planar
    THEN     With2(    src_size \div S.nb_ch,
                    S.abps \div S.nb_ch, LAMBDA stride, bps :
            [k \in 1..(S.nb_ch * nb_samp * bps) |->
                   With2((k - 1) \div (nb_samp * bps),
                        (k - 1) % (nb_samp * bps), LAMBDA i, j :
                  i * stride + offset * bps + j)])
    ELSE [k \in 1..(nb_samp * S.abps) |-> offset * S.abps + (k - 1)]

\* x *= to; x /= from on a u32 variable x and u32 operands (lines 721-722,
\* 1393-1394, 1652-1653): the product is reduced to the width of x
rescale_u32(x, to, from) == ((x * to) % Word) \div from

\* rescaling of a sample count to the stream timescale (lines 720-725)
rescale_samples(S, x) ==
    IF S.timescale # S.sample_rate
    THEN rescale_u32(x, S.timescale, S.sample_rate) ELSE x

\* rt_regulate with every stream on its own anchors, in sync mode too
rt_regulate_own(W, s, h) ==
    With2(   W.ctx,
             PckData(W, h), LAMBDA c, p :
    With(      PckTs(p), LAMBDA ts0 :
    With2(        ((ts0 + W.st[s].tk_delay) * 1000000) \div W.st[s].timescale,
                    c.rt = REFRAME_RT_SYNC /\ c.clock # 0
                    /\ \A i \in 1..Len(c.streams) : c.streams[i] # c.clock,
                        LAMBDA cts_us, dangling :
    With2(    IF c.rt = REFRAME_RT_SYNC /\ c.clock = 0
              THEN [W EXCEPT !.ctx.clock = s]
              ELSE IF dangling THEN [W EXCEPT !.gh.uaf = TRUE] ELSE W,
             s, LAMBDA W1, t :
    With(    W1.st[t], LAMBDA T :
    With(        cts_us - T.cts_us_at_init, LAMBDA diff0 :
    With2(      IF c.speed > 0 THEN diff0 \div c.speed
                ELSE IF c.speed < 0 THEN diff0 \div (- c.speed) ELSE diff0,
                 c.clock_val - T.sys_clock_at_init, LAMBDA diff, clock :
       IF c.rt = REFRAME_RT_OFF THEN [W |-> W, t |-> s, do_send |-> TRUE]
       ELSE IF ts0 = NO_TS THEN [W |-> W, t |-> s, do_send |-> TRUE]
       ELSE IF T.sys_clock_at_init = 0
       THEN [W |-> [W1 EXCEPT !.st[t].cts_us_at_init = cts_us,
                              !.st[t].sys_clock_at_init = c.clock_val],
             t |-> t, do_send |-> TRUE]
       ELSE IF cts_us < T.cts_us_at_init
       THEN [W |-> W1, t |-> t, do_send |-> TRUE]
       ELSE IF clock + RT_PRECISION_US >= diff
       THEN [W |-> W1, t |-> t, do_send |-> TRUE]
       ELSE [W |-> [W1 EXCEPT !.ctx.reschedule_in =
                        IF @ = 0 \/ @ > diff - clock THEN diff - clock ELSE @],
             t |-> t, do_send |-> FALSE])))))))

\* lines 598-645: real-time regulation.  t: the stream whose clock anchors are
\* used (ctx->clock in sync mode), W: the world with anchors updated
rt_regulate(W, s, h) ==
    With2(   W.ctx,
             PckData(W, h), LAMBDA c, p :
    With(      PckTs(p), LAMBDA ts0 :
    With2(        ((ts0 + W.st[s].tk_delay) * 1000000) \div W.st[s].timescale,
                    c.rt = REFRAME_RT_SYNC /\ c.clock # 0
                    /\ \A i \in 1..Len(c.streams) : c.streams[i] # c.clock,
                        LAMBDA cts_us, dangling :
    With(     IF c.rt = REFRAME_RT_SYNC /\ c.clock = 0
              THEN [W EXCEPT !.ctx.clock = s]
              ELSE IF dangling THEN [W EXCEPT !.gh.uaf = TRUE] ELSE W, LAMBDA W1 :
    With(    IF c.rt = REFRAME_RT_SYNC THEN W1.ctx.clock ELSE s, LAMBDA t :
    With(    W1.st[t], LAMBDA T :
    With(        cts_us - T.cts_us_at_init, LAMBDA diff0 :
    With2(      IF c.speed > 0 THEN diff0 \div c.speed
                ELSE IF c.speed < 0 THEN diff0 \div (- c.speed) ELSE diff0,
                 c.clock_val - T.sys_clock_at_init, LAMBDA diff, clock :
       IF c.rt = REFRAME_RT_OFF THEN [W |-> W, t |-> s, do_send |-> TRUE]
       ELSE IF ts0 = NO_TS THEN [W |-> W, t |-> s, do_send |-> TRUE]
       ELSE IF T.sys_clock_at_init = 0
       THEN [W |-> [W1 EXCEPT !.st[t].cts_us_at_init = cts_us,
                              !.st[t].sys_clock_at_init = c.clock_val],
             t |-> t, do_send |-> TRUE]
       ELSE IF cts_us < T.cts_us_at_init
       THEN [W |-> W1, t |-> t, do_send |-> TRUE]
       ELSE IF clock + RT_PRECISION_US >= diff
       THEN [W |-> W1, t |-> t, do_send |-> TRUE]
       ELSE [W |-> [W1 EXCEPT !.ctx.reschedule_in =
                        IF @ = 0 \/ @ > diff - clock THEN diff - clock ELSE @],
             t |-> t, do_send |-> FALSE]))))))))

\* u64 division as the build performs it; by zero it is undefined, the value
\* 0 stands for whatever a build that does not trap returns
UDiv(n, d) == IF d = 0 THEN 0 ELSE n \div d

\* lines 746-750 and 777-780: the boundary times are divided by zero
suffix_div0(c) ==
    With(        c.xs[c.cur_range_idx], LAMBDA start :
       IF c.extract_mode = EXTRACT_RANGE
       THEN start.k \in {"frac", "D"} /\ start.den # 1 /\ c.cur_start.den = 0
       ELSE c.cur_start.den = 0 \/ c.cur_end.den = 0)

\* FileSuffix of lines 742-784
file_suffix(c) ==
    With2(       c.xs[c.cur_range_idx],
                   c.range_type = RANGE_CLOSED
                   /\ c.cur_range_idx < Len(c.xe) + 1, LAMBDA start, has_end :
       IF c.extract_mode = EXTRACT_RANGE
       THEN IF start.k \in {"frac", "D"} /\ start.den # 1
            THEN IF c.cur_end.den # 0
                 THEN <<"num", UDiv(c.cur_start.num, c.cur_start.den),
                        c.cur_end.num \div c.cur_end.den>>
                 ELSE <<"num", UDiv(c.cur_start.num, c.cur_start.den)>>
            ELSE IF has_end THEN <<"str", start, c.xe[c.cur_range_idx]>>
                 ELSE <<"str", start>>
       ELSE <<"num", UDiv(c.cur_start.num * 1000, c.cur_start.den),
              UDiv(c.cur_end.num * 1000, c.cur_end.den)>>)

\* "no such property" on an output packet
NoProp == -1

\* lines 667-845: the packet built and sent on the output of stream t while a
\* range is active.  Returns the world with t's range state updated and the
\* packet appended to t's output.
send_in_range(W, t, h, p) ==
    With2(   W.ctx,
             W.st[t], LAMBDA c, T :
    With2(         c.tcmdrw /\ T.codec_id = "tmcd" /\ T.split_start # 0
                   /\ c.nb_video_frames_since_start_at_range_start # 0,
                T.audio_samples_to_keep, LAMBDA is_tmcd, keep :
    With(           ~is_tmcd /\ h = T.split_pck /\ T.audio_samples_to_keep # 0, LAMBDA is_first :
    With(            ~is_tmcd /\ ~is_first /\ T.audio_samples_to_keep # 0, LAMBDA is_second :
    With5(      IF is_tmcd THEN "tmcd" ELSE IF is_first THEN "first"
                ELSE IF is_second THEN "second" ELSE "ref",
                 IF is_first THEN keep * T.abps
                 ELSE IF is_second THEN p.size - keep * T.abps ELSE p.size,
                IF is_first THEN copy_raw_audio_src(T, p.size, 0, keep)
                ELSE IF is_second
                THEN copy_raw_audio_src(T, p.size, keep, p.size - keep * T.abps)
                ELSE <<>>,
                IF is_first THEN keep
                ELSE IF is_second THEN p.size \div T.abps - keep ELSE 0,
                       IF is_second THEN keep ELSE 0,
                LAMBDA kind, alloc, copy, dur0, cts_offset0 :
        \* T1: after the audio branch
    With2(    IF is_second
              THEN [T EXCEPT !.ts_at_range_start_plus_one =
                                 IF c.cur_range_idx = 1 THEN @ + cts_offset0
                                 ELSE @,
                             !.audio_samples_to_keep = 0]
              ELSE T,
                cts_offset0 # 0 \/ dur0 # 0, LAMBDA T1, resc :
        \* boundary signalling
    With3(            IF resc THEN rescale_samples(T, cts_offset0) ELSE 0,
                IF resc THEN rescale_samples(T, dur0) ELSE p.dur,
                  ~T1.first_pck_sent, LAMBDA cts_offset, dur1, signal :
    With3(         IF ~signal THEN NoProp
                   ELSE IF c.extract_mode = EXTRACT_RANGE THEN c.cur_range_idx
                   ELSE c.file_idx,
                   IF signal THEN file_suffix(c) ELSE <<>>,
              [T1 EXCEPT !.first_pck_sent = TRUE], LAMBDA filenum, filesuf, T2 :
        \* timestamps
    With4(       T2.tk_delay + T2.ts_at_range_end
                 - (T2.ts_at_range_start_plus_one - 1),
                  p.cts + cts_offset,
                  p.dts + cts_offset,
        \* packet was split or re-inserted
                  T2.split_start # 0, LAMBDA shift, cts_in, dts_in, has_ss :
    With3(       cts_in + shift,
                IF has_ss
                THEN (IF p.dur > T2.split_start THEN p.dur - T2.split_start
                      ELSE p.dur)
                ELSE dur1,
              IF has_ss
              THEN [T2 EXCEPT !.ts_at_range_start_plus_one = @ + T2.split_start,
                              !.split_start = 0]
              ELSE T2, LAMBDA cts_s, dur2, T3 :
    With2(         IF cts_in = NO_TS THEN p.cts
                   ELSE IF cts_s < 0 THEN 0 ELSE cts_s,
                  T3.split_end # 0 /\ Len(T3.pck_queue) = 1, LAMBDA cts_out, has_se :
    With4(         IF c.raw
                   THEN (IF cts_in = NO_TS THEN p.dts ELSE cts_out)
                   ELSE IF dts_in = NO_TS THEN p.dts ELSE dts_in + shift,
                IF has_se THEN T3.split_end ELSE dur2,
              IF has_se THEN [T3 EXCEPT !.split_end = 0] ELSE T3,
                    has_ss \/ has_se, LAMBDA dts_out, dur3, T4, is_split :
    With2(       ~T4.can_split /\ ~is_split /\ T4.reinsert_single_pck # NoPck
                 /\ T4.range_end_reached_ts # 0,
                T4.range_end_reached_ts - (T4.ts_at_range_start_plus_one - 1),
                LAMBDA reins, ndur :
    With3(      IF reins /\ ndur # 0 /\ U64Lt(ndur, p.dur) THEN ndur ELSE dur3,
              IF reins THEN [T4 EXCEPT !.split_start = ndur] ELSE T4,
        \* memcpy past the end of the source data or of the new packet
               Len(copy) > alloc \/ \E i \in 1..Len(copy) : copy[i] >= p.size,
               LAMBDA dur4, T5, oob :
       [W EXCEPT !.out[t] =
                     Append(@,
                       [pid |-> h[1], h |-> h, kind |-> kind, cts |-> cts_out,
                        dts |-> dts_out, dur |-> dur4, alloc |-> alloc,
                        copy |-> copy,
                        filenum |-> filenum, filesuf |-> filesuf,
                        split |-> is_split \/ is_first \/ is_second \/ reins,
                        tc_add |-> IF is_tmcd
                                   THEN c.nb_video_frames_since_start_at_range_start
                                   ELSE 0,
                        samples |-> dur0, abps |-> T.abps,
                        ots |-> PckTs(p) + T.tk_delay,
                        rs |-> T.ts_at_range_start_plus_one - 1,
                        closed |-> c.range_type = RANGE_CLOSED,
                        chunk |-> W.gh.nact]),
                 !.st[t] = T5,
                 !.gh.oob = @ \/ oob,
                 !.gh.div0 = @ \/ (signal /\ suffix_div0(c))]))))))))))))))

\* gf_filter_pck_forward: the packet is sent unchanged
send_forward(W, t, h, p) ==
    [W EXCEPT !.out[t] = Append(@,
        [pid |-> h[1], h |-> h, kind |-> "forward", cts |-> p.cts,
         dts |-> p.dts, dur |-> p.dur, alloc |-> p.size, copy |-> <<>>,
         filenum |-> NoProp, filesuf |-> <<>>, split |-> FALSE, tc_add |-> 0,
         samples |-> 0, abps |-> W.st[t].abps,
         ots |-> PckTs(p) + W.st[t].tk_delay, rs |-> 0,
         closed |-> FALSE, chunk |-> W.gh.nact])]

\* reframer_send_packet: [W, sent]
reframer_send_packet(W, s, h, pck_is_ref) ==
    With2(   PckData(W, h),
              rt_regulate(W, s, h), LAMBDA p, rt :
    With2(    rt.W,
             rt.t, LAMBDA W1, t :
    With(           W1.ctx.range_type = RANGE_NONE /\ Len(W1.ctx.frames) # 0
                    /\ ~(\E i \in 1..Len(W1.ctx.frames) :
                            W1.ctx.frames[i] = W1.st[t].nb_frames + 1), LAMBDA filtered :
       IF filtered
       THEN [W |-> [pid_drop_packet(W1, t) EXCEPT !.st[t].nb_frames = @ + 1],
             sent |-> TRUE]
       ELSE IF ~rt.do_send THEN [W |-> W1, sent |-> FALSE]
       ELSE With(    [reframer_drop_packet(
                          IF W1.st[t].ts_at_range_start_plus_one # 0
                          THEN send_in_range(W1, t, h, p)
                          ELSE send_forward(W1, t, h, p), t, h, pck_is_ref)
                        EXCEPT !.st[t].nb_frames = @ + 1], LAMBDA W4 :
               [W |-> IF W4.st[t].stream_type = "visual"
                         /\ W4.st[t].nb_frames > W4.ctx.nb_video_frames_since_start
                      THEN [W4 EXCEPT !.ctx.nb_video_frames_since_start =
                                          W4.st[t].nb_frames]
                      ELSE W4,
                sent |-> TRUE]))))

(***************************************************************************)
(* check_gop_split                                                         *)
(***************************************************************************)
\* lines 974-992: timestamp of the first queued sync packet after the first
\* gop_depth+1 ones, 0 when there is none
\* one packet of the queue of s; x: [j, nb_sap, ts, done]
gop_last_sap_packet(W, s, x) ==
    With(    W.st[s].pck_queue, LAMBDA q :
    IF x.j > Len(q) THEN [x EXCEPT !.ts = 0, !.done = TRUE]
    ELSE     With(PckData(W, q[x.j]), LAMBDA p :
         IF ~W.ctx.raw /\ p.sap = 0 THEN [x EXCEPT !.j = @ + 1]
         ELSE IF x.nb_sap + 1 <= 1 + W.ctx.gop_depth
              THEN [x EXCEPT !.j = @ + 1, !.nb_sap = @ + 1]
              ELSE [x EXCEPT !.ts = PckTs(p) + W.st[s].tk_delay,
                             !.done = TRUE]))

gop_last_sap(W, s, j, nb_sap) ==
    While(LAMBDA x : x.done,
          LAMBDA x : gop_last_sap_packet(W, s, x),
          [j |-> j, nb_sap |-> nb_sap, ts |-> 0, done |-> FALSE]).ts

GopAcc0 ==
    [min_ts |-> 0, min_timescale |-> 0, min_ts_a |-> 0, min_timescale_a |-> 0,
     nb_eos |-> 0, has_empty_streams |-> FALSE, wait_for_sap |-> FALSE,
     flush_all |-> FALSE]

\* lines 960-1013: one iteration of the candidate scan
gop_scan_stream(W, s, a) ==
    With(    W.st[s], LAMBDA S :
    With2(    IF S.in_eos THEN [a EXCEPT !.nb_eos = @ + 1] ELSE a,
                       gop_last_sap(W, s, 1, 0), LAMBDA a1, last_sap_ts :
    With(     IF last_sap_ts = 0
              THEN IF S.in_eos /\ ~a1.flush_all /\ S.reinsert_single_pck = NoPck
                   THEN [a1 EXCEPT !.flush_all = TRUE]
                   ELSE IF ~S.all_saps THEN [a1 EXCEPT !.wait_for_sap = TRUE]
                   ELSE a1
              ELSE a1, LAMBDA a2 :
       IF S.in_eos /\ S.pck_queue = <<>>
       THEN [a1 EXCEPT !.has_empty_streams = TRUE]
       ELSE IF S.all_saps
       THEN IF a2.min_ts_a = 0
               \/ last_sap_ts * a2.min_timescale_a < a2.min_ts_a * S.timescale
            THEN [a2 EXCEPT !.min_ts_a = last_sap_ts,
                            !.min_timescale_a = S.timescale]
            ELSE a2
       ELSE IF a2.min_ts = 0
               \/ last_sap_ts * a2.min_timescale < a2.min_ts * S.timescale
            THEN [a2 EXCEPT !.min_ts = last_sap_ts,
                            !.min_timescale = S.timescale]
            ELSE a2)))

RECURSIVE gop_scan(_, _, _)
gop_scan(W, i, a) ==
    IF i > Count(W) THEN a
    ELSE gop_scan(W, i + 1, gop_scan_stream(W, StreamAt(W, i), a))

\* lines 1021-1043: final flush, the latest end of the last queued packets;
\* ok is FALSE when a stream is not at end of stream (the function returns)
RECURSIVE gop_flush(_, _, _)
gop_flush(W, i, a) ==
    IF i > Count(W) THEN [ok |-> TRUE, a |-> a]
    ELSE     With(StreamAt(W, i), LAMBDA s :
             With(W.st[s], LAMBDA S :
             With(PckData(W, S.pck_queue[Len(S.pck_queue)]), LAMBDA p :
             With(  IF p.dur = 0 THEN 1 ELSE p.dur, LAMBDA dur :
             With( PckTs(p) + S.tk_delay + dur, LAMBDA ts :
            IF ~S.in_eos THEN [ok |-> FALSE, a |-> a]
            ELSE IF S.pck_queue = <<>> THEN gop_flush(W, i + 1, a)
            ELSE IF a.min_ts = 0
                    \/ ts * a.min_timescale > a.min_ts * S.timescale
            THEN gop_flush(W, i + 1, [a EXCEPT !.min_ts = ts,
                                               !.min_timescale = S.timescale])
            ELSE gop_flush(W, i + 1, a))))))

\* lines 952-1060: [ret: the function returns, W, flush_all]
gop_find_min_ts(W) ==
    With(     gop_scan(W, 1, GopAcc0), LAMBDA a0 :
    With(     IF a0.nb_eos # 0 /\ a0.has_empty_streams
              THEN [a0 EXCEPT !.flush_all = TRUE] ELSE a0, LAMBDA a1 :
    With(     IF a1.flush_all THEN gop_flush(W, 1, a1)
              ELSE [ok |-> TRUE, a |-> a1], LAMBDA fl :
    With(     fl.a, LAMBDA a2 :
    With(     IF a2.min_ts = 0
              THEN [a2 EXCEPT !.min_ts = a2.min_ts_a,
                              !.min_timescale = a2.min_timescale_a]
              ELSE a2, LAMBDA a3 :
       IF W.ctx.min_ts_scale # 0
       THEN [ret |-> FALSE, W |-> W, flush_all |-> FALSE]
       ELSE IF ~fl.ok THEN [ret |-> TRUE, W |-> W, flush_all |-> TRUE]
       ELSE IF a2.min_ts = 0 /\ a2.wait_for_sap
       THEN [ret |-> TRUE, W |-> W, flush_all |-> a2.flush_all]
       ELSE IF a3.min_ts = 0
       THEN [ret |-> a3.nb_eos < Count(W), W |-> W, flush_all |-> a3.flush_all]
       ELSE [ret |-> FALSE,
             W |-> [W EXCEPT !.ctx.min_ts_scale = a3.min_timescale,
                             !.ctx.min_ts_computed = a3.min_ts],
             flush_all |-> a3.flush_all])))))

\* lines 1062-1080: "ok" when every stream has reached min ts, "wait" when one
\* has not, "assert" when assert(pck) fails
RECURSIVE gop_all_reached(_, _)
gop_all_reached(W, i) ==
    IF i > Count(W) THEN "ok"
    ELSE     With(W.st[StreamAt(W, i)], LAMBDA S :
             With(PckData(W, S.pck_queue[Len(S.pck_queue)]), LAMBDA p :
             With( PckTs(p) + S.tk_delay, LAMBDA ts :
            IF S.range_start_computed = 2 \/ S.reinsert_single_pck # NoPck
            THEN gop_all_reached(W, i + 1)
            ELSE IF S.pck_queue = <<>> THEN "assert"
            ELSE IF ts * W.ctx.min_ts_scale
                    < W.ctx.min_ts_computed * S.timescale
            THEN "wait"
            ELSE gop_all_reached(W, i + 1))))

\* lines 1096-1116 on one stream: [size, stop, eos] where size is the cumulated
\* size of the packets before min ts, stop tells a packet at or after min ts
\* was found
\* one packet of the queue of s; x: [j, size, stop, eos, done]
gop_size_packet(W, s, x) ==
    With(    W.st[s], LAMBDA S :
    IF x.j > Len(S.pck_queue)
    THEN [x EXCEPT !.stop = 0, !.eos = IF S.in_eos THEN 1 ELSE 0,
                   !.done = TRUE]
    ELSE     With(PckData(W, S.pck_queue[x.j]), LAMBDA p :
             With( PckTs(p) + S.tk_delay, LAMBDA ts :
            IF ts * W.ctx.min_ts_scale >= W.ctx.min_ts_computed * S.timescale
            THEN [x EXCEPT !.stop = 1, !.eos = 0, !.done = TRUE]
            ELSE [x EXCEPT !.j = @ + 1, !.size = @ + p.size])))

gop_size_stream(W, s, j, size) ==
    While(LAMBDA x : x.done,
          LAMBDA x : gop_size_packet(W, s, x),
          [j |-> j, size |-> size, stop |-> 0, eos |-> 0, done |-> FALSE])

RECURSIVE gop_size(_, _, _)
gop_size(W, i, a) ==
    IF i > Count(W) THEN a
    ELSE     With(gop_size_stream(W, StreamAt(W, i), 1, 0), LAMBDA r :
            gop_size(W, i + 1,
                     [cumulated_size |-> a.cumulated_size + r.size,
                      nb_stop_at_min_ts |-> a.nb_stop_at_min_ts + r.stop,
                      nb_eos |-> a.nb_eos + r.eos]))

\* gop_use_prev with the test of 'closest' reversed and 'before' and 'after'
\* exchanged
gop_use_prev_reversed(c, cumulated_size) ==
    With2(           c.split_size - c.est_file_size,
                     c.split_size - cumulated_size, LAMBDA diff_prev, diff_cur :
    With(           IF c.xround = REFRAME_ROUND_BEFORE THEN FALSE
                    ELSE IF c.xround = REFRAME_ROUND_AFTER THEN TRUE
                    ELSE ABS(diff_cur) < ABS(diff_prev), LAMBDA by_round :
       IF c.prev_min_ts_scale = 0 THEN FALSE ELSE by_round))

\* lines 1136-1152: which estimation is used
gop_use_prev(c, cumulated_size) ==
    With2(           c.split_size - c.est_file_size,
                     c.split_size - cumulated_size, LAMBDA diff_prev, diff_cur :
    With(           IF c.xround = REFRAME_ROUND_BEFORE THEN TRUE
                    ELSE IF c.xround = REFRAME_ROUND_AFTER THEN FALSE
                    ELSE ~(ABS(diff_cur) < ABS(diff_prev)), LAMBDA by_round :
       IF c.prev_min_ts_scale = 0 THEN FALSE ELSE by_round))

\* gop_size_check extending the lookahead without waiting for every stream
gop_size_check_eager(W) ==
    With2(   W.ctx,
             gop_size(W, 1, [cumulated_size |-> 0, nb_stop_at_min_ts |-> 0,
                             nb_eos |-> 0]), LAMBDA c, a :
    With(           gop_use_prev(c, a.cumulated_size), LAMBDA use_prev :
    With(     IF use_prev
              THEN [c EXCEPT !.min_ts_computed = c.prev_min_ts_computed,
                             !.min_ts_scale = c.prev_min_ts_scale]
              ELSE [c EXCEPT !.est_file_size = a.cumulated_size], LAMBDA c1 :
       IF a.cumulated_size < c.split_size /\ c.min_ts_scale # 0
          /\ (c.prev_min_ts_computed = 0
              \/ c.prev_min_ts_computed < c.min_ts_computed)
       THEN [ret |-> TRUE,
             W |-> IF a.nb_stop_at_min_ts + a.nb_eos >= 0
                   THEN [W EXCEPT !.ctx = [c EXCEPT
                            !.est_file_size = a.cumulated_size,
                            !.prev_min_ts_computed = c.min_ts_computed,
                            !.prev_min_ts_scale = c.min_ts_scale,
                            !.min_ts_computed = 0, !.min_ts_scale = 0,
                            !.gop_depth = @ + 1]]
                   ELSE W]
       ELSE [ret |-> FALSE,
             W |-> [W EXCEPT !.ctx = [c1 EXCEPT !.prev_min_ts_computed = 0,
                                               !.prev_min_ts_scale = 0],
                             !.gh.decided =
                                 [has_prev |-> c.prev_min_ts_scale # 0,
                                  prev_size |-> c.est_file_size,
                                  prev_ts |-> c.prev_min_ts_computed,
                                  prev_scale |-> c.prev_min_ts_scale,
                                  cur_size |-> a.cumulated_size,
                                  cur_ts |-> c.min_ts_computed,
                                  cur_scale |-> c.min_ts_scale,
                                  est |-> c1.est_file_size,
                                  end_ts |-> c1.min_ts_computed,
                                  end_scale |-> c1.min_ts_scale,
                                  n |-> @.n + 1]]])))

\* lines 1083-1164: [ret, W]
gop_size_check(W) ==
    With2(   W.ctx,
             gop_size(W, 1, [cumulated_size |-> 0, nb_stop_at_min_ts |-> 0,
                             nb_eos |-> 0]), LAMBDA c, a :
    With(           gop_use_prev(c, a.cumulated_size), LAMBDA use_prev :
    With(     IF use_prev
              THEN [c EXCEPT !.min_ts_computed = c.prev_min_ts_computed,
                             !.min_ts_scale = c.prev_min_ts_scale]
              ELSE [c EXCEPT !.est_file_size = a.cumulated_size], LAMBDA c1 :
       IF a.cumulated_size < c.split_size /\ c.min_ts_scale # 0
          /\ (c.prev_min_ts_computed = 0
              \/ c.prev_min_ts_computed < c.min_ts_computed)
       THEN [ret |-> TRUE,
             W |-> IF a.nb_stop_at_min_ts + a.nb_eos = Count(W)
                   THEN [W EXCEPT !.ctx = [c EXCEPT
                            !.est_file_size = a.cumulated_size,
                            !.prev_min_ts_computed = c.min_ts_computed,
                            !.prev_min_ts_scale = c.min_ts_scale,
                            !.min_ts_computed = 0, !.min_ts_scale = 0,
                            !.gop_depth = @ + 1]]
                   ELSE W]
       ELSE [ret |-> FALSE,
             W |-> [W EXCEPT !.ctx = [c1 EXCEPT !.prev_min_ts_computed = 0,
                                               !.prev_min_ts_scale = 0],
                             !.gh.decided =
                                 [has_prev |-> c.prev_min_ts_scale # 0,
                                  prev_size |-> c.est_file_size,
                                  prev_ts |-> c.prev_min_ts_computed,
                                  prev_scale |-> c.prev_min_ts_scale,
                                  cur_size |-> a.cumulated_size,
                                  cur_ts |-> c.min_ts_computed,
                                  cur_scale |-> c.min_ts_scale,
                                  est |-> c1.est_file_size,
                                  end_ts |-> c1.min_ts_computed,
                                  end_scale |-> c1.min_ts_scale,
                                  n |-> @.n + 1]]])))

\* gop_good_to_go storing the rescaled cut point itself as the range end
gop_good_to_go_exact(W) ==
    LET c == W.ctx
        inTable == { c.streams[i] : i \in 1..Len(c.streams) }
        upd(S) ==
            IF S.pck_queue # <<>>
            THEN [S EXCEPT
                    !.range_end_reached_ts =
                        (IF c.min_ts_scale # 0
                         THEN (c.min_ts_computed * S.timescale)
                              \div c.min_ts_scale
                         ELSE c.min_ts_computed * S.timescale),
                    !.first_pck_sent = FALSE,
                    !.ts_at_range_start_plus_one =
                        PckTs(PckData(W, Head(S.pck_queue))) + S.tk_delay + 1]
            ELSE [S EXCEPT !.range_end_reached_ts = 0,
                           !.first_pck_sent = FALSE]
    IN [W EXCEPT
          !.ctx = [c EXCEPT !.in_range = TRUE, !.gop_depth = 0,
                            !.cur_end = Frac(c.min_ts_computed, c.min_ts_scale)],
          !.st = [s \in Pids |-> IF s \in inTable THEN upd(@[s]) ELSE @[s]],
          !.gh = [@ EXCEPT
                    !.nact = @ + 1,
                    !.assert_eos = @ \/ \E s \in inTable :
                        W.st[s].pck_queue = <<>>
                        /\ W.st[s].range_start_computed # 2]]

\* lines 1166-1193: the cut point is accepted
gop_good_to_go(W) ==
    LET c == W.ctx
        inTable == { c.streams[i] : i \in 1..Len(c.streams) }
        upd(S) ==
            IF S.pck_queue # <<>>
            THEN [S EXCEPT
                    !.range_end_reached_ts =
                        (IF c.min_ts_scale # 0
                         THEN (c.min_ts_computed * S.timescale)
                              \div c.min_ts_scale
                         ELSE c.min_ts_computed * S.timescale) + 1,
                    !.first_pck_sent = FALSE,
                    !.ts_at_range_start_plus_one =
                        PckTs(PckData(W, Head(S.pck_queue))) + S.tk_delay + 1]
            ELSE [S EXCEPT !.range_end_reached_ts = 0,
                           !.first_pck_sent = FALSE]
    IN [W EXCEPT
          !.ctx = [c EXCEPT !.in_range = TRUE, !.gop_depth = 0,
                            !.cur_end = Frac(c.min_ts_computed, c.min_ts_scale)],
          !.st = [s \in Pids |-> IF s \in inTable THEN upd(@[s]) ELSE @[s]],
          !.gh = [@ EXCEPT
                    !.nact = @ + 1,
                    !.assert_eos = @ \/ \E s \in inTable :
                        W.st[s].pck_queue = <<>>
                        /\ W.st[s].range_start_computed # 2]]

\* history of the cut point accepted in this call of process: W the world
\* when check_gop_split was entered, f the outcome of lines 952-1060, R the
\* world on return
gop_accepted(W, f, R) ==
    [R EXCEPT !.gh.cut =
        [n |-> @.n + 1,
         flush |-> f.flush_all,
         scanned |-> W.ctx.min_ts_scale = 0,
         cand |-> [s \in Pids |->
                     IF \E i \in 1..Count(W) : StreamAt(W, i) = s
                     THEN gop_last_sap(W, s, 1, 0) ELSE 0],
         min_ts |-> f.W.ctx.min_ts_computed,
         min_scale |-> f.W.ctx.min_ts_scale,
         pre |-> [ctx |-> W.ctx, st |-> W.st],
         post |-> [ctx |-> R.ctx, st |-> R.st]]]

check_gop_split(W) ==
    With(    gop_find_min_ts(W), LAMBDA f :
    With2(         IF f.flush_all THEN "ok" ELSE gop_all_reached(f.W, 1),
             IF f.W.ctx.extract_mode = EXTRACT_SIZE THEN gop_size_check(f.W)
             ELSE [ret |-> FALSE, W |-> f.W], LAMBDA reached, z :
       IF f.ret THEN f.W
       ELSE IF reached = "assert"
       THEN [f.W EXCEPT !.gh.assert_pck = TRUE]
       ELSE IF reached = "wait" THEN f.W
       ELSE IF z.ret THEN z.W
       ELSE gop_accepted(W, f, gop_good_to_go(z.W))))

(***************************************************************************)
(* reframer_process: fetching input packets (lines 1246-1530)              *)
(***************************************************************************)
\* lines 1391-1434: the sync packet chosen as start of the range, plus one
start_sap_choice(c, S, ts, keep) ==
    With2(        IF keep # 0 /\ S.sample_rate # S.timescale
                  THEN rescale_u32(keep, S.timescale, S.sample_rate)
                  ELSE keep,
                          (c.cur_start.num * S.timescale) \div c.cur_start.den,
                              LAMBDA ts_adj, start_range_ts :
    With(
            IF c.start_frame_idx_plus_one # 0
            THEN ABS((c.start_frame_idx_plus_one - 1) - S.nb_frames_range)
                 < ABS((c.start_frame_idx_plus_one - 1) - S.prev_sap_frame_idx)
            ELSE ABS(start_range_ts - (ts + ts_adj))
                 < ABS(start_range_ts - S.prev_sap_ts), LAMBDA cur_closer :
       IF c.xround = REFRAME_ROUND_CLOSEST
       THEN (IF cur_closer THEN ts + ts_adj + 1 ELSE S.prev_sap_ts + 1)
       ELSE IF c.xround = REFRAME_ROUND_BEFORE
       THEN (IF c.extract_mode = EXTRACT_RANGE
                /\ c.start_frame_idx_plus_one = 0
                /\ ts + ts_adj = start_range_ts
             THEN ts + ts_adj + 1 ELSE S.prev_sap_ts + 1)
       ELSE ts + ts_adj + 1))

FetchAcc0 ==
    [nb_start_range_reached |-> 0, nb_not_playing |-> 0, check_split |-> FALSE]

Reached(a) == [a EXCEPT !.nb_start_range_reached = @ + 1]

\* lines 1275-1316: no packet on the input of s
fetch_no_packet(W, s, a) ==
    With2(   W.st[s],
             W.ctx, LAMBDA S, c :
        \* single-packet stream: the packet is re-inserted in each range
    With(       ~c.in_range /\ S.range_start_computed = 0, LAMBDA mark :
    With(          mark /\ S.pck_queue = <<>>, LAMBDA requeue :
    With(     IF requeue
              THEN pck_ref([W EXCEPT !.st[s].pck_queue =
                                Append(@, S.reinsert_single_pck)],
                           S.reinsert_single_pck)
              ELSE W, LAMBDA W1 :
    With(     [W1 EXCEPT
                 !.st[s].range_start_computed = IF mark THEN 3 ELSE @,
                 !.st[s].in_eos = IF ~c.is_range_extraction THEN TRUE ELSE @], LAMBDA W2 :
    With2(    [a EXCEPT
                 !.check_split = @ \/ (requeue /\ ~c.is_range_extraction),
                 !.nb_start_range_reached =
                     IF W2.st[s].range_start_computed # 0 THEN @ + 1 ELSE @],
        \* any other stream at end of stream
              IF ~c.is_range_extraction
              THEN [W EXCEPT !.st[s].in_eos = TRUE]
              ELSE [W EXCEPT
                      !.st[s].range_start_computed = 2,
                      !.ctx.wait_video_range_adjust =
                          IF @ /\ c.xadjust /\ S.needs_adjust THEN FALSE ELSE @], LAMBDA a2, W3 :
    With(     IF S.is_playing /\ c.extract_mode = EXTRACT_DUR
              THEN [W3 EXCEPT !.ctx.has_seen_eos = TRUE,
                              !.ctx.in_range = TRUE,
                              !.gh.nact = IF c.in_range THEN @ ELSE @ + 1]
              ELSE W3, LAMBDA W4 :
       IF ~pid_is_eos(W, s) THEN [W |-> W, a |-> a, ctl |-> "continue"]
       ELSE IF S.reinsert_single_pck # NoPck
       THEN [W |-> W2, a |-> a2, ctl |-> "continue"]
       ELSE [W |-> W4,
             a |-> [a EXCEPT !.check_split = @ \/ ~c.is_range_extraction],
             ctl |-> "continue"])))))))

\* keep_single keeping the second packet of a stream instead of the first
keep_single_second(W, s, h) ==
    IF ~pck_is_blocking_ref(W, s) /\ W.st[s].nb_frames_range = 2
    THEN [pck_ref(W, h) EXCEPT !.st[s].reinsert_single_pck = h]
    ELSE IF W.st[s].reinsert_single_pck # NoPck
    THEN [pck_unref(W, W.st[s].reinsert_single_pck)
            EXCEPT !.st[s].reinsert_single_pck = NoPck]
    ELSE W

\* lines 1358-1366 and 1516-1524: the first packet of a stream is kept for
\* re-insertion until a second one is seen
keep_single(W, s, h) ==
    IF ~pck_is_blocking_ref(W, s) /\ W.st[s].nb_frames_range = 1
    THEN [pck_ref(W, h) EXCEPT !.st[s].reinsert_single_pck = h]
    ELSE IF W.st[s].reinsert_single_pck # NoPck
    THEN [pck_unref(W, W.st[s].reinsert_single_pck)
            EXCEPT !.st[s].reinsert_single_pck = NoPck]
    ELSE W

\* lines 1346-1368: sync-point or size split, the packet is queued
fetch_split_mode(W, s, h, a) ==
    IF pck_is_blocking_ref(W, s)
    THEN [W |-> [W EXCEPT !.ctx.eos_state = 2], a |-> a, ctl |-> "notsupp"]
    ELSE     With( pid_drop_packet(pck_ref(W, h), s), LAMBDA W1 :
             With( [W1 EXCEPT !.st[s].pck_queue = Append(@, h)], LAMBDA W2 :
            [W |-> keep_single(W2, s, h),
             a |-> [a EXCEPT !.check_split = TRUE], ctl |-> "continue"]))

\* lines 1504-1529: the packet is queued
fetch_enqueue(W, s, h, drop_input, r, a) ==
    With(     [pck_ref(W, h) EXCEPT !.st[s].pck_queue = Append(@, h)], LAMBDA W1 :
    With(     IF drop_input THEN keep_single(pid_drop_packet(W1, s), s, h)
              ELSE [pck_unref(W1, W1.st[s].split_pck)
                      EXCEPT !.st[s].split_pck = NoPck,
                             !.gh.assert_split = @ \/ h # W1.st[s].split_pck], LAMBDA W2 :
       IF pck_is_blocking_ref(W, s) /\ r = 0
       THEN [W |-> IF drop_input
                   THEN pid_drop_packet(
                          [W EXCEPT !.st[s].use_blocking_refs = TRUE], s)
                   ELSE [W EXCEPT !.st[s].use_blocking_refs = TRUE],
             a |-> a, ctl |-> "continue"]
       ELSE [W |-> W2, a |-> a, ctl |-> "continue"]))

\* fetch_after_range with the break of line 1500 left out: the packet past the
\* end of the range is always queued
fetch_after_range_always(W, s, h, ts, keep, is_sap, a) ==
    With(    W.st[s], LAMBDA S :
    With(        S.range_start_computed = 0, LAMBDA first :
       [W |-> [W EXCEPT
                 !.st[s].split_end = 0,
                 !.st[s].sap_ts_plus_one = IF first THEN S.prev_sap_ts + 1 ELSE @,
                 !.st[s].range_start_computed = IF first THEN 1 ELSE @,
                 !.st[s].range_end_reached_ts = ts + 1],
        a |-> IF first THEN Reached(a) ELSE a,
        enqueue |-> TRUE]))

\* lines 1456-1502: the packet is past the end of the range
fetch_after_range(W, s, h, ts, keep, is_sap, a) ==
    With2(   W.ctx,
             W.st[s], LAMBDA c, S :
    With(        S.range_start_computed = 0, LAMBDA first :
    With3(    [S EXCEPT
                 !.split_end = 0,
                 !.sap_ts_plus_one = IF first THEN S.prev_sap_ts + 1 ELSE @,
                 !.range_start_computed = IF first THEN 1 ELSE @,
                 !.range_end_reached_ts = ts + 1],
              IF first THEN Reached(a) ELSE a,
                      S.can_split /\ c.start_frame_idx_plus_one = 0, LAMBDA S1, a1, text_split :
    With3(         text_split
                   /\ ts * c.cur_end.den < c.cur_end.num * S.timescale,
                    ~text_split /\ keep # 0 /\ c.start_frame_idx_plus_one = 0,
                     (c.cur_end.num * S.timescale) \div c.cur_end.den - ts,
                         LAMBDA do_text, do_audio, split_end :
    With(     IF do_text
              THEN [S1 EXCEPT !.split_end = split_end,
                              !.range_end_reached_ts = @ + split_end,
                              !.split_pck = h]
              ELSE IF do_audio
              THEN [S1 EXCEPT !.split_pck = h, !.audio_samples_to_keep = keep]
              ELSE S1, LAMBDA S2 :
    With(     [W EXCEPT !.st[s] = S2], LAMBDA W1 :
    With(     IF do_text \/ do_audio THEN pck_ref(W1, h) ELSE W1, LAMBDA W2 :
    With2(    IF c.wait_video_range_adjust /\ c.xadjust /\ S.needs_adjust
              THEN [W2 EXCEPT
                      !.ctx.cur_end = Frac(S2.range_end_reached_ts - 1,
                                           S.timescale),
                      !.ctx.wait_video_range_adjust = FALSE]
              ELSE W2,
                   (first /\ S.prev_sap_ts = ts) \/ do_text \/ do_audio, LAMBDA W3, enqueue :
       IF ~c.xadjust \/ is_sap
       THEN [W |-> W3, a |-> a1, enqueue |-> enqueue]
       ELSE [W |-> W, a |-> a, enqueue |-> TRUE]))))))))

\* lines 1369-1529: range extraction, the packet h read on s is classified
fetch_range_mode(W, s, h, drop_input, is_sap, a) ==
    With3(   W.ctx,
             W.st[s],
             PckData(W, h), LAMBDA c, S, p :
    With(     PckTs(p) + S.tk_delay, LAMBDA ts :
    With(      reframer_check_pck_range(c, S, ts, p.dur, S.nb_frames_range), LAMBDA pir :
        \* sync packet, lines 1380-1451
    With2(    IF is_sap /\ pir.r = 0 /\ (Count(W) = 1 \/ ~S.all_saps)
              THEN reframer_purge_queues(W, ts, S.timescale) ELSE W,
                  is_sap /\ ~c.in_range /\ pir.r = 1, LAMBDA W1, starts :
    With2(    IF starts
              THEN [W1 EXCEPT
                      !.st[s].sap_ts_plus_one =
                          start_sap_choice(c, S, ts, pir.keep),
                      !.st[s].range_start_computed = 1,
                      !.st[s].audio_samples_to_keep =
                          IF pir.keep # 0 THEN pir.keep ELSE @]
              ELSE W1,
              IF starts THEN Reached(a) ELSE a, LAMBDA W2, a2 :
    With(     IF is_sap /\ pir.r # 2
              THEN [W2 EXCEPT !.st[s].prev_sap_ts = ts,
                              !.st[s].prev_sap_frame_idx = S.nb_frames_range]
              ELSE W2, LAMBDA W3 :
    With2(    IF is_sap /\ ~c.wait_video_range_adjust /\ c.xadjust
                 /\ S.needs_adjust
              THEN [W3 EXCEPT !.ctx.wait_video_range_adjust = TRUE] ELSE W3,
             IF c.extract_mode = EXTRACT_DUR /\ c.has_seen_eos /\ pir.r = 2
             THEN 1 ELSE pir.r, LAMBDA W4, r :
    With(     fetch_after_range(W4, s, h, ts, pir.keep, is_sap, a2), LAMBDA af :
       IF c.wait_video_range_adjust /\ ~S.needs_adjust
       THEN [W |-> W, a |-> a, ctl |-> "continue"]
       ELSE IF r = 2
       THEN (IF af.enqueue
             THEN fetch_enqueue(af.W, s, h, drop_input, r, af.a)
             ELSE [W |-> af.W, a |-> af.a, ctl |-> "break"])
       ELSE fetch_enqueue(W4, s, h, drop_input, r, a2)))))))))

\* lines 1317-1344: a packet was read on s
fetch_packet(W, s, h, drop_input, a) ==
    With3(   W.ctx,
             W.st[s],
             PckData(W, h), LAMBDA c, S, p :
    With(         c.nosap \/ c.raw \/ p.sap # 0, LAMBDA is_sap :
    With(            ~is_sap /\ S.all_saps, LAMBDA lost_sync :
    With(     [S EXCEPT
                 !.nb_frames_range = @ + 1,
                 !.all_saps = IF lost_sync THEN FALSE ELSE @,
                 !.needs_adjust = IF lost_sync /\ c.xadjust THEN TRUE ELSE @], LAMBDA S1 :
    With(     [W EXCEPT
                 !.st[s] = S1,
                 !.ctx.nb_non_saps = IF lost_sync THEN @ + 1 ELSE @,
                 !.ctx.wait_video_range_adjust =
                     IF lost_sync /\ c.xadjust /\ S.range_start_computed = 1
                        /\ c.is_range_extraction
                     THEN TRUE ELSE @], LAMBDA W1 :
       IF ~c.is_range_extraction THEN fetch_split_mode(W1, s, h, a)
       ELSE fetch_range_mode(W1, s, h, drop_input, is_sap, a))))))

\* one iteration of the fetch loop
fetch_stream(W, s, a) ==
    With2(   W.st[s],
             W.ctx, LAMBDA S, c :
    With(            S.split_pck # NoPck, LAMBDA has_split :
    With(    IF has_split THEN S.split_pck ELSE pid_get_packet(W, s), LAMBDA h :
       IF ~S.is_playing
       THEN [W |-> W,
             a |-> [Reached(a) EXCEPT !.nb_not_playing = @ + 1],
             ctl |-> "continue"]
       ELSE IF S.range_start_computed # 0 /\ ~c.wait_video_range_adjust
       THEN [W |-> W, a |-> Reached(a), ctl |-> "continue"]
       ELSE IF ~c.has_seen_eos /\ S.range_end_reached_ts # 0
       THEN [W |-> W, a |-> a, ctl |-> "continue"]
       ELSE IF h = NoPck THEN fetch_no_packet(W, s, a)
       ELSE fetch_packet(W, s, h, ~has_split, a))))

RECURSIVE fetch_loop(_, _, _)
fetch_loop(W, i, a) ==
    IF i > Count(W) THEN [W |-> W, a |-> a, ctl |-> "done"]
    ELSE     With(fetch_stream(W, StreamAt(W, i), a), LAMBDA f :
            IF f.ctl = "continue" THEN fetch_loop(f.W, i + 1, f.a)
            ELSE f)

(***************************************************************************)
(* reframer_process: start of the range (lines 1536-1710)                  *)
(***************************************************************************)
StartAcc0 ==
    [min_ts |-> 0, min_timescale |-> 0, min_ts_a |-> 0, min_timescale_a |-> 0,
     min_ts_split |-> 0, min_timescale_split |-> 0]

\* lines 1549-1579: the earliest chosen start, per class of stream (the
\* stored values are timestamps plus one)
RECURSIVE start_min(_, _, _)
start_min(W, i, a) ==
    IF i > Count(W) THEN a
    ELSE     With(W.st[StreamAt(W, i)], LAMBDA S :
             With(S.sap_ts_plus_one, LAMBDA v :
             With( IF ~S.is_playing \/ S.range_start_computed \in {2, 3}
                   THEN a
                   ELSE IF S.can_split
                   THEN (IF a.min_ts_split = 0
                            \/ (v - 1) * a.min_timescale_split
                               < a.min_ts_split * S.timescale
                         THEN [a EXCEPT !.min_ts_split = v,
                                        !.min_timescale_split = S.timescale]
                         ELSE a)
                   ELSE IF S.all_saps
                   THEN (IF a.min_ts_a = 0
                            \/ (v - 1) * a.min_timescale_a
                               < a.min_ts_a * S.timescale
                         THEN [a EXCEPT !.min_ts_a = v,
                                        !.min_timescale_a = S.timescale]
                         ELSE a)
                   ELSE (IF a.min_ts = 0
                            \/ (v - 1) * a.min_timescale < a.min_ts * S.timescale
                         THEN [a EXCEPT !.min_ts = v,
                                        !.min_timescale = S.timescale]
                         ELSE a), LAMBDA a1 :
            start_min(W, i + 1, a1))))

\* lines 1580-1601: [min_ts plus one, min_timescale]; min_ts 0: purge all
start_decide(W) ==
    With2(   start_min(W, 1, StartAcc0),
             W.ctx, LAMBDA a, c :
       IF a.min_ts # 0 THEN [min_ts |-> a.min_ts, min_timescale |-> a.min_timescale]
       ELSE IF a.min_ts_a # 0
       THEN [min_ts |-> a.min_ts_a, min_timescale |-> a.min_timescale_a]
       ELSE IF a.min_ts_split # 0
       THEN (IF c.start_frame_idx_plus_one # 0
             THEN [min_ts |-> a.min_ts_split,
                   min_timescale |-> a.min_timescale_split]
             ELSE [min_ts |-> c.cur_start.num + 1,
                   min_timescale |-> c.cur_start.den])
       ELSE [min_ts |-> 0, min_timescale |-> a.min_timescale_a])

\* is_start_pck taking a packet as the start only when it starts after the
\* start of the range
is_start_pck_late(S, p, min_ts, min_timescale) ==
    With2(     PckTs(p) + S.tk_delay,
                IF p.dur = 0 THEN 1 ELSE p.dur, LAMBDA ots, dur0 :
    With2(    IF min_timescale # S.timescale
              THEN (ots * min_timescale) \div S.timescale ELSE ots,
               IF min_timescale # S.timescale
               THEN (dur0 * min_timescale) \div S.timescale ELSE dur0, LAMBDA ts, dur :
       IF ts > min_ts THEN 1
       ELSE IF S.can_split /\ ts + dur >= min_ts THEN 2
       ELSE IF S.audio_samples_to_keep # 0 /\ ts + dur >= min_ts THEN 1
       ELSE IF S.range_start_computed = 3 THEN 1
       ELSE 0))

\* lines 1611-1639: 0 when the packet is before the start, 1 when it starts
\* the range, 2 when it spans the start and is split
is_start_pck(S, p, min_ts, min_timescale) ==
    With2(     PckTs(p) + S.tk_delay,
                IF p.dur = 0 THEN 1 ELSE p.dur, LAMBDA ots, dur0 :
    With2(    IF min_timescale # S.timescale
              THEN (ots * min_timescale) \div S.timescale ELSE ots,
               IF min_timescale # S.timescale
               THEN (dur0 * min_timescale) \div S.timescale ELSE dur0, LAMBDA ts, dur :
       IF ts >= min_ts THEN 1
       ELSE IF S.can_split /\ ts + dur >= min_ts THEN 2
       ELSE IF S.audio_samples_to_keep # 0 /\ ts + dur >= min_ts THEN 1
       ELSE IF S.range_start_computed = 3 THEN 1
       ELSE 0))

\* split_start of lines 1648-1655
split_start_of(S, p, min_ts, min_timescale) ==
    With(      PckTs(p) + S.tk_delay, LAMBDA ots :
    With(     IF min_timescale # S.timescale
              THEN (ots * min_timescale) \div S.timescale ELSE ots, LAMBDA ts :
       IF min_timescale # S.timescale
       THEN rescale_u32(min_ts - ts, S.timescale, min_timescale)
       ELSE min_ts - ts))

\* lines 1608-1673: the queue of s is purged up to the start; [W, start_found]
start_purge_packet(W, s, purge_all, min_ts, min_timescale) ==
    With(    W.st[s], LAMBDA S :
    IF S.pck_queue = <<>>
    THEN [W |-> W, start_found |-> FALSE, stop |-> TRUE]
    ELSE     With(Head(S.pck_queue), LAMBDA h :
             With(PckData(W, h), LAMBDA p :
             With(       IF purge_all THEN 0
                         ELSE is_start_pck(S, p, min_ts, min_timescale), LAMBDA is_start :
            IF is_start # 0
            THEN [W |-> [W EXCEPT
                           !.st[s].split_start =
                               IF is_start = 2
                               THEN split_start_of(S, p, min_ts, min_timescale)
                               ELSE 0,
                           !.st[s].ts_at_range_start_plus_one =
                               PckTs(p) + S.tk_delay + 1],
                  start_found |-> TRUE, stop |-> TRUE]
            ELSE [W |-> pck_unref([W EXCEPT !.st[s].pck_queue = Tail(@),
                                            !.st[s].nb_frames = @ + 1], h),
                  start_found |-> FALSE, stop |-> FALSE]))))

\* the loop on the queue of s: [W, start_found]
start_purge_stream(W, s, purge_all, min_ts, min_timescale) ==
    While(LAMBDA x : x.stop,
          LAMBDA x : start_purge_packet(x.W, s, purge_all, min_ts, min_timescale),
          [W |-> W, start_found |-> FALSE, stop |-> FALSE])

\* lines 1603-1681: [W, ok]; ok FALSE: a stream has no packet at the start,
\* it re-evaluates its start and process returns GF_OK
RECURSIVE start_purge(_, _, _, _, _)
start_purge(W, i, purge_all, min_ts, min_timescale) ==
    IF i > Count(W) THEN [W |-> W, ok |-> TRUE]
    ELSE     With(StreamAt(W, i), LAMBDA s :
             With(start_purge_stream(W, s, purge_all, min_ts, min_timescale), LAMBDA r :
            IF ~r.start_found /\ ~r.W.st[s].use_blocking_refs
            THEN [W |-> [r.W EXCEPT !.st[s].range_start_computed = 0],
                  ok |-> FALSE]
            ELSE start_purge(r.W, i + 1, purge_all, min_ts, min_timescale)))

\* lines 1683-1700
start_ready(W, purge_all) ==
    With(    W.ctx, LAMBDA c :
    With2(         { c.streams[i] : i \in 1..Len(c.streams) },
               purge_all /\ c.extract_mode # EXTRACT_RANGE, LAMBDA inTable, eos :
       [W EXCEPT
          !.st = [s \in Pids |->
                    IF s \in inTable
                    THEN [@[s] EXCEPT
                            !.range_start_computed = 0,
                            !.first_pck_sent =
                                IF c.extract_mode = EXTRACT_DUR THEN FALSE
                                ELSE ~c.splitrange]
                    ELSE @[s]],
          !.eos_out = [s \in Pids |-> @[s] \/ (eos /\ s \in inTable)]]))

\* the whole block: ctl is "return_ok", "return_eos", "load_next_range" or
\* "in_range"
compute_start(W) ==
    With(    start_decide(W), LAMBDA d :
    With(            d.min_ts = 0, LAMBDA purge_all :
    With(     IF purge_all THEN [W EXCEPT !.ctx.eos_state = 1] ELSE W, LAMBDA W1 :
    With(     start_purge(W1, 1, purge_all, d.min_ts - 1, d.min_timescale), LAMBDA pr :
    With(     start_ready(pr.W, purge_all), LAMBDA W2 :
       IF ~pr.ok THEN [W |-> pr.W, ctl |-> "return_ok"]
       ELSE IF purge_all
       THEN [W |-> W2,
             ctl |-> IF W.ctx.extract_mode # EXTRACT_RANGE THEN "return_eos"
                     ELSE "load_next_range"]
       ELSE [W |-> [W2 EXCEPT !.ctx.in_range = TRUE,
                              !.gh.nact = @ + 1,
                              !.gh.purge = [n |-> 1, pre |-> W.st,
                                            post |-> pr.W.st],
                              !.gh.chosen =
                                  [s \in Pids |->
                                     IF pr.W.st[s].is_playing
                                        /\ pr.W.st[s].range_start_computed = 1
                                     THEN pr.W.st[s].sap_ts_plus_one ELSE 0],
                              !.gh.req =
                                  IF W.ctx.extract_mode = EXTRACT_RANGE
                                     /\ W.ctx.start_frame_idx_plus_one = 0
                                  THEN W.ctx.cur_start ELSE Frac(0, 0),
                              !.gh.start = [ts |-> d.min_ts - 1,
                                            scale |-> d.min_timescale]],
             ctl |-> "in_range"])))))

(***************************************************************************)
(* reframer_process: sending packets (lines 1715-1809)                     *)
(***************************************************************************)
\* lines 1767-1797: is the packet forwarded
forward_pck(c, p) ==
    /\ ~(c.refs /\ p.nonref)
    /\ (Len(c.saps) = 0
        \/ CASE p.sap = 1 -> c.filter_sap1
             [] p.sap = 2 -> c.filter_sap2
             [] p.sap = 3 -> c.filter_sap3
             [] p.sap = 4 -> c.filter_sap4
             [] OTHER -> c.filter_sap_none)
    /\ c.range_type # RANGE_DONE

MaxFrame(c) ==
    IF Len(c.frames) = 0 THEN 0
    ELSE CHOOSE m \in { c.frames[i] : i \in 1..Len(c.frames) } :
            \A i \in 1..Len(c.frames) : c.frames[i] <= m

\* one iteration of the while (1) loop on stream s.  a: [nb_eos,
\* nb_end_of_range]; again: the loop goes round once more; hang: the loop
\* never exits (the packet it reads is never removed)
send_stream(W, s, a) ==
    With2(   W.ctx,
             W.st[s], LAMBDA c, S :
    With(         c.range_type # RANGE_NONE /\ c.range_type # RANGE_DONE, LAMBDA ranged :
    With(    IF ranged
             THEN (IF S.pck_queue = <<>> THEN NoPck ELSE Head(S.pck_queue))
             ELSE pid_get_packet(W, s), LAMBDA h :
    With(    PckData(W, h), LAMBDA p :
    With2(        ranged /\ ~c.is_range_extraction /\ S.range_end_reached_ts # 0
                  /\ PckTs(p) + S.tk_delay >= S.range_end_reached_ts - 1,
             reframer_send_packet(W, s, h, ranged), LAMBDA at_end, r :
    With2(          IF ranged
                    THEN Len(r.W.st[s].pck_queue) < Len(S.pck_queue)
                    ELSE r.W.inp[s].pos > W.inp[s].pos,
             rt_regulate(W, s, h).t, LAMBDA progress, t :
       IF h = NoPck
       THEN IF S.range_end_reached_ts # 0
            THEN [W |-> W, a |-> [a EXCEPT !.nb_end_of_range = @ + 1],
                  again |-> FALSE, hang |-> FALSE]
            ELSE IF ~S.is_playing
            THEN [W |-> W, a |-> [a EXCEPT !.nb_eos = @ + 1],
                  again |-> FALSE, hang |-> FALSE]
            ELSE IF pid_is_eos(W, s)
            THEN [W |-> [W EXCEPT !.eos_out[s] = TRUE],
                  a |-> [a EXCEPT !.nb_eos = @ + 1],
                  again |-> FALSE, hang |-> FALSE]
            ELSE [W |-> W, a |-> a, again |-> FALSE, hang |-> FALSE]
       ELSE IF at_end
       THEN [W |-> W, a |-> [a EXCEPT !.nb_end_of_range = @ + 1],
             again |-> FALSE, hang |-> FALSE]
       ELSE IF ~forward_pck(c, p)
       THEN [W |-> [reframer_drop_packet(W, s, h, ranged)
                      EXCEPT !.st[s].nb_frames = @ + 1],
             a |-> a, again |-> TRUE, hang |-> FALSE]
       ELSE IF ~r.sent
       THEN [W |-> r.W, a |-> a, again |-> FALSE, hang |-> FALSE]
       ELSE IF progress
               \/ (~ranged /\ r.W.st[t].nb_frames < MaxFrame(c))
       THEN [W |-> r.W, a |-> a, again |-> TRUE, hang |-> FALSE]
       ELSE [W |-> r.W, a |-> a, again |-> FALSE, hang |-> TRUE]))))))

\* the loop over the streams, from stream i on: [W, i, a, hang]
send_loop(W, i, a) ==
    While(LAMBDA x : x.hang \/ x.i > Count(x.W),
          LAMBDA x : With(send_stream(x.W, StreamAt(x.W, x.i), x.a), LAMBDA r :
                        [W |-> r.W, a |-> r.a, hang |-> r.hang,
                         i |-> IF r.again THEN x.i ELSE x.i + 1]),
          [W |-> W, i |-> i, a |-> a, hang |-> FALSE])

(***************************************************************************)
(* reframer_process: end of the range (lines 1811-1854)                    *)
(***************************************************************************)
\* next_range_stream with the timestamp at range end brought back to 0: each
\* range is sent on a timeline of its own
next_range_stream_rebased(c, S) ==
    [S EXCEPT !.ts_at_range_end = 0,
              !.ts_at_range_start_plus_one = 0,
              !.range_end_reached_ts = 0,
              !.range_start_computed = 0]

\* lines 1816-1848 on one stream
next_range_stream(c, S) ==
    With2(       (c.cur_start.num * S.timescale) \div c.cur_start.den,
                 S.reinsert_single_pck # NoPck /\ c.cur_start.den # 0, LAMBDA start, reins :
    With(      IF reins
               THEN (IF c.cur_end.num # 0 /\ c.cur_end.den # 0
                     THEN (c.cur_end.num * S.timescale) \div c.cur_end.den
                          - start
                     ELSE S.ts_at_range_end)
               ELSE S.ts_at_range_end + (S.range_end_reached_ts - 1)
                    - (S.ts_at_range_start_plus_one - 1), LAMBDA end :
       [S EXCEPT !.ts_at_range_end = end,
                 !.ts_at_range_start_plus_one = 0,
                 !.range_end_reached_ts = 0,
                 !.range_start_computed = 0]))

load_next_range(W) ==
    LET c == W.ctx
        inTable == { c.streams[i] : i \in 1..Len(c.streams) }
        eos(s) == W.st[s].in_eos /\ W.st[s].pck_queue = <<>>
        W1 == [W EXCEPT
                 !.st = [s \in Pids |->
                           IF s \in inTable THEN next_range_stream(c, @[s])
                           ELSE @[s]],
                 !.eos_out = [s \in Pids |-> @[s] \/ (s \in inTable /\ eos(s))],
                 !.ctx.in_range = FALSE,
                 !.gh.ends =
                     IF \A s \in Pids : W.st[s].range_end_reached_ts = 0
                     THEN @
                     ELSE Append(@,
                            [chunk |-> W.gh.nact,
                             re |-> [s \in Pids |->
                                       W.st[s].range_end_reached_ts]])]
    IN [W |-> reframer_load_range(W1),
        nb_eos |-> Cardinality({ s \in inTable : eos(s) })]

(***************************************************************************)
(* reframer_process                                                        *)
(***************************************************************************)
\* from the sending loop to the return: [W, ret, hang]
process_send(W) ==
    With(    send_loop(W, 1, [nb_eos |-> 0, nb_end_of_range |-> 0]), LAMBDA r :
    With2(   load_next_range(r.W),
                r.a.nb_end_of_range + r.a.nb_eos = Count(W), LAMBDA n, next :
    With(         IF next THEN n.nb_eos ELSE r.a.nb_eos, LAMBDA nb_eos :
       IF r.hang THEN [W |-> r.W, ret |-> "hang"]
       ELSE [W |-> IF next THEN n.W ELSE r.W,
             ret |-> IF nb_eos = Count(W) THEN GF_EOS ELSE GF_OK])))

\* the load_next_range label reached from the start computation
process_next(W) ==
    With(    load_next_range(W), LAMBDA n :
       [W |-> n.W, ret |-> IF n.nb_eos = Count(W) THEN GF_EOS ELSE GF_OK])

\* lines 1240-1713: an active range, not yet sending
process_range(W) ==
    With(    fetch_loop(W, 1, FetchAcc0), LAMBDA f :
    With(     IF f.a.check_split THEN check_gop_split(f.W) ELSE f.W, LAMBDA W2 :
    With2(             ~W2.ctx.in_range
                       /\ f.a.nb_start_range_reached = Count(W)
                       /\ f.a.nb_not_playing < Count(W)
                       /\ W2.ctx.is_range_extraction,
              compute_start(W2), LAMBDA all_reached, cs :
       IF f.ctl = "notsupp" THEN [W |-> f.W, ret |-> GF_NOT_SUPPORTED]
       ELSE IF all_reached
       THEN CASE cs.ctl = "return_ok" -> [W |-> cs.W, ret |-> GF_OK]
              [] cs.ctl = "return_eos" -> [W |-> cs.W, ret |-> GF_EOS]
              [] cs.ctl = "load_next_range" -> process_next(cs.W)
              [] OTHER -> process_send(cs.W)
       ELSE IF ~W2.ctx.in_range THEN [W |-> W2, ret |-> GF_OK]
       ELSE process_send(W2))))

\* clk: the value read from gf_sys_clock_high_res
reframer_process(W, clk) ==
    With(    W.ctx, LAMBDA c :
    With(     IF c.rt # REFRAME_RT_OFF
              THEN [W EXCEPT !.ctx.reschedule_in = 0, !.ctx.clock_val = clk]
              ELSE W, LAMBDA W1 :
       IF c.eos_state # 0
       THEN [W |-> W,
             ret |-> IF c.eos_state = 2 THEN GF_NOT_SUPPORTED ELSE GF_EOS]
       ELSE IF c.range_type # RANGE_NONE /\ c.range_type # RANGE_DONE
       THEN process_range(W1)
       ELSE process_send(W1)))

(***************************************************************************)
(* reframer_initialize, reframer_configure_pid, reframer_process_event,    *)
(* reframer_finalize                                                       *)
(***************************************************************************)
reframer_initialize(W) ==
    reframer_load_range([W EXCEPT !.ctx.streams = <<>>, !.ctx.seekable = TRUE])

\* reframer_reset_stream: the queue, the split slot and the re-insert slot
\* are released and the stream is freed
unref_all(W, q) ==
    While(LAMBDA x : x.q = <<>>,
          LAMBDA x : [W |-> pck_unref(x.W, Head(x.q)), q |-> Tail(x.q)],
          [W |-> W, q |-> q]).W

reframer_reset_stream(W, s) ==
    With(    W.st[s], LAMBDA S :
    With(     unref_all(W, S.pck_queue), LAMBDA W1 :
    With(     IF S.split_pck # NoPck THEN pck_unref(W1, S.split_pck) ELSE W1, LAMBDA W2 :
    With(     IF S.reinsert_single_pck # NoPck
              THEN pck_unref(W2, S.reinsert_single_pck) ELSE W2, LAMBDA W3 :
       [W3 EXCEPT !.st[s] = ZeroStream]))))

\* gf_filter_pid_remove on the output pid of s
pid_remove(W, s) == [W EXCEPT !.out[s] = <<>>, !.eos_out[s] = FALSE]

\* lines 216-297: the stream is set up from the properties of its input pid
configure_props(c, S, m) ==
    With(            m.codec_id = "raw" /\ m.stream_type = "audio", LAMBDA raw_audio :
    [S EXCEPT
       !.timescale = IF m.timescale # NoProp THEN m.timescale ELSE 1000,
       !.all_saps = TRUE,
       !.can_split = (m.stream_type = "text"),
       !.stream_type = m.stream_type,
       !.codec_id = m.codec_id,
       !.abps = IF raw_audio THEN m.afmt_bytes * m.nb_ch ELSE 0,
       !.nb_ch = IF raw_audio THEN m.nb_ch ELSE 0,
       !.sample_rate = IF ~raw_audio THEN 0
                       ELSE IF m.sample_rate # NoProp THEN m.sample_rate
                       ELSE IF m.timescale # NoProp THEN m.timescale ELSE 1000,
       !.audio_planar = raw_audio /\ m.planar,
       !.needs_adjust = c.xadjust,
       !.tk_delay = IF m.delay = NoProp \/ m.delay <= 0 THEN 0 ELSE m.delay])

InSaps(c, v) == \E i \in 1..Len(c.saps) : c.saps[i] = v

reframer_configure_pid(W, s, is_remove) ==
    With(    W.ctx, LAMBDA c :
    With2(       \E i \in 1..Len(c.streams) : c.streams[i] = s,
             W.src[s], LAMBDA known, m :
    With(     IF known THEN W.st[s]
              ELSE [ZeroStream EXCEPT !.all_saps = TRUE], LAMBDA S0 :
    With(     [c EXCEPT
                 !.streams = IF known THEN @ ELSE Append(@, s),
                 !.nb_non_saps = IF ~S0.all_saps THEN @ - 1 ELSE @,
                 !.seekable = IF ~m.playback THEN FALSE ELSE @,
                 !.filter_sap1 = InSaps(c, 1),
                 !.filter_sap2 = InSaps(c, 2),
                 !.filter_sap3 = InSaps(c, 3),
                 !.filter_sap4 = InSaps(c, 4),
                 !.filter_sap_none =
                     \E i \in 1..Len(c.saps) : c.saps[i] \notin {1, 2, 3, 4}], LAMBDA c1 :
       IF is_remove
       THEN IF known
            THEN reframer_reset_stream(
                   [pid_remove(W, s) EXCEPT !.ctx.streams =
                        SelectSeq(c.streams, LAMBDA x : x # s)], s)
            ELSE W
       ELSE [W EXCEPT !.ctx = c1, !.st[s] = configure_props(c, S0, m)]))))

\* reframer_process_event with PLAY clearing every end state, the fatal one
\* included
reframer_process_event_clear(W, s, type) ==
    With(    W.ctx, LAMBDA c :
    With(              IF c.range_type # RANGE_NONE
                          /\ c.start_frame_idx_plus_one = 0
                       THEN SeekStart(c) ELSE Frac(0, 1), LAMBDA start_range :
       IF type = "PLAY"
       THEN [W EXCEPT !.st[s].in_eos = FALSE,
                      !.st[s].is_playing = TRUE,
                      !.ctx.eos_state = 0,
                      !.inp[s] = [pid_seek(W, s, start_range)
                                    EXCEPT !.seeks = W.inp[s].seeks]]
       ELSE IF type = "STOP"
       THEN [W EXCEPT !.st[s].is_playing = FALSE,
                      !.inp[s].stopped = TRUE]
       ELSE W))

\* reframer_process_event on the output pid of s; the event is forwarded to
\* the input pid, where PLAY makes the source start at the requested time
reframer_process_event(W, s, type) ==
    With(    W.ctx, LAMBDA c :
    With(              IF c.range_type # RANGE_NONE
                          /\ c.start_frame_idx_plus_one = 0
                       THEN SeekStart(c) ELSE Frac(0, 1), LAMBDA start_range :
       IF type = "PLAY"
       THEN [W EXCEPT !.st[s].in_eos = FALSE,
                      !.st[s].is_playing = TRUE,
                      !.ctx.eos_state = IF @ = 1 THEN 0 ELSE @,
                      !.inp[s] = [pid_seek(W, s, start_range)
                                    EXCEPT !.seeks = W.inp[s].seeks]]
       ELSE IF type = "STOP"
       THEN [W EXCEPT !.st[s].is_playing = FALSE,
                      !.inp[s].stopped = TRUE]
       ELSE W))

RECURSIVE reframer_finalize(_)
reframer_finalize(W) ==
    IF W.ctx.streams = <<>> THEN W
    ELSE     With(Len(W.ctx.streams), LAMBDA n :
             With(W.ctx.streams[n], LAMBDA s :
            reframer_finalize(
              reframer_reset_stream(
                [W EXCEPT !.ctx.streams = SubSeq(@, 1, n - 1)], s))))

(***************************************************************************)
(* The filter session: arguments, media of the input pids                  *)
(***************************************************************************)
\* defaults of ReframerArgs
DefaultArgs ==
    [frames |-> <<>>, refs |-> FALSE, rt |-> REFRAME_RT_OFF, speed |-> 1,
     raw |-> FALSE, xs |-> <<>>, xe |-> <<>>, nosap |-> FALSE,
     splitrange |-> FALSE, xadjust |-> FALSE, tcmdrw |-> TRUE,
     xround |-> REFRAME_ROUND_BEFORE, seeksafe |-> 10, saps |-> <<>>,
     nprops |-> 0]

\* what an input pid declares and carries
Media(type, codec, timescale, pcks) ==
    [stream_type |-> type, codec_id |-> codec, timescale |-> timescale,
     pcks |-> pcks, afmt_bytes |-> 0, nb_ch |-> 0, sample_rate |-> NoProp,
     planar |-> FALSE, delay |-> NoProp, playback |-> TRUE, blocking |-> FALSE]

InitInp ==
    [gen |-> 0, pos |-> 0, avail |-> 0, discard |-> FALSE, stopped |-> TRUE,
     seeks |-> 0]

\* no cut point accepted by the last call of process
NoCut ==
    [n |-> 0, flush |-> FALSE, scanned |-> FALSE,
     cand |-> [s \in Pids |-> 0], min_ts |-> 0, min_scale |-> 0,
     pre |-> [ctx |-> ZeroCtx(DefaultArgs), st |-> [s \in Pids |-> ZeroStream]],
     post |-> [ctx |-> ZeroCtx(DefaultArgs), st |-> [s \in Pids |-> ZeroStream]]]

\* no start of range decided by the last call of process; otherwise the
\* streams before and after the purge of lines 1603-1681
NoPurge ==
    [n |-> 0, pre |-> [s \in Pids |-> ZeroStream],
     post |-> [s \in Pids |-> ZeroStream]]

InitGh ==
    [nact |-> 0,
     decided |-> [has_prev |-> FALSE, prev_size |-> 0, prev_ts |-> 0,
                  prev_scale |-> 0, cur_size |-> 0, cur_ts |-> 0,
                  cur_scale |-> 0, est |-> 0, end_ts |-> 0, end_scale |-> 0,
                  n |-> 0],
     start |-> [ts |-> 0, scale |-> 0],
     ends |-> <<>>,
     chosen |-> [s \in Pids |-> 0], req |-> Frac(0, 0),
     assert_eos |-> FALSE, assert_pck |-> FALSE, assert_split |-> FALSE,
     uaf |-> FALSE, oob |-> FALSE, div0 |-> FALSE,
     cut |-> NoCut, purge |-> NoPurge]

World ==
    [ctx |-> ctx, st |-> st, src |-> src, inp |-> inp, refs |-> refs,
     out |-> out, eos_out |-> eos_out, gh |-> gh]

Install(W) ==
    /\ ctx' = W.ctx
    /\ st' = W.st
    /\ src' = W.src
    /\ inp' = W.inp
    /\ refs' = W.refs
    /\ out' = W.out
    /\ eos_out' = W.eos_out
    /\ gh' = W.gh

\* the state after reframer_initialize for arguments args and pids carrying
\* media[s]
InitWith(args, media, events) ==
    LET W0 == [ctx |-> ZeroCtx(args),
               st |-> [s \in Pids |-> ZeroStream],
               src |-> media,
               inp |-> [s \in Pids |-> InitInp],
               refs |-> << >>,
               out |-> [s \in Pids |-> <<>>],
               eos_out |-> [s \in Pids |-> FALSE],
               gh |-> InitGh]
        W == reframer_initialize(W0)
    IN /\ ctx = W.ctx
       /\ st = W.st
       /\ src = W.src
       /\ inp = W.inp
       /\ refs = W.refs
       /\ out = W.out
       /\ eos_out = W.eos_out
       /\ gh = W.gh
       /\ ret = GF_OK
       /\ alive = TRUE
       /\ env = [events |-> 0, now |-> 1, run |-> FALSE, budget |-> events]

InTable(s) == \E i \in 1..Len(ctx.streams) : ctx.streams[i] = s

(***************************************************************************)
(* Actions: the callbacks of the filter and the steps of the host          *)
(***************************************************************************)
\* the host declares the input pid s: configure_pid(pid, is_remove = FALSE)
ConfigurePid(s) ==
    /\ alive
    /\ (~InTable(s) /\ ~env.run) \/ env.events < env.budget
    /\ Install(reframer_configure_pid(World, s, FALSE))
    /\ env' = IF InTable(s) \/ env.run THEN [env EXCEPT !.events = @ + 1]
              ELSE env
    /\ UNCHANGED <<ret, alive>>

\* the input pid s is removed: configure_pid(pid, is_remove = TRUE)
RemovePid(s) ==
    /\ alive
    /\ InTable(s)
    /\ env.events < env.budget
    /\ Install([reframer_configure_pid(World, s, TRUE)
                  EXCEPT !.inp[s] = [InitInp EXCEPT !.gen = inp[s].gen]])
    /\ env' = [env EXCEPT !.events = @ + 1]
    /\ UNCHANGED <<ret, alive>>

\* a PLAY event arrives on the output pid of s
Play(s) ==
    /\ alive
    /\ InTable(s)
    /\ ~st[s].is_playing \/ env.events < env.budget
    /\ Install(reframer_process_event(World, s, "PLAY"))
    /\ env' = IF st[s].is_playing THEN [env EXCEPT !.events = @ + 1] ELSE env
    /\ UNCHANGED <<ret, alive>>

\* a STOP event arrives on the output pid of s
Stop(s) ==
    /\ alive
    /\ InTable(s)
    /\ st[s].is_playing
    /\ env.events < env.budget
    /\ Install(reframer_process_event(World, s, "STOP"))
    /\ env' = [env EXCEPT !.events = @ + 1]
    /\ UNCHANGED <<ret, alive>>

\* the source of s dispatches its next packet, or signals end of stream
Deliver(s) ==
    /\ alive
    /\ InTable(s)
    /\ ~inp[s].stopped
    /\ inp[s].avail <= Len(src[s].pcks)
    /\ inp[s].avail - inp[s].pos < MaxBuffer
    /\ inp' = [inp EXCEPT ![s].avail = @ + 1]
    /\ UNCHANGED <<ctx, st, src, refs, out, eos_out, gh, ret, alive, env>>

\* one call of reframer_process; the system clock has advanced by d steps
Process ==
    /\ alive
    /\ Len(ctx.streams) > 0
    /\ ctx.file_idx < MaxFiles
    /\ \E d \in (IF ctx.rt = REFRAME_RT_OFF \/ env.now >= MaxClock * ClockStep
                 THEN {0} ELSE {0, 1}) :
         LET now == env.now + d * ClockStep
             r == reframer_process([World EXCEPT !.gh.div0 = FALSE,
                                               !.gh.cut = NoCut,
                                               !.gh.purge = NoPurge], now)
         IN \E crash \in (IF r.W.gh.uaf \/ r.W.gh.oob \/ r.W.gh.div0
                           THEN BOOLEAN ELSE {FALSE}) :
              /\ Install(r.W)
              /\ ret' = IF crash THEN "crash" ELSE r.ret
              /\ alive' = (~crash /\ r.ret # "hang")
              /\ env' = [env EXCEPT !.now = now, !.run = TRUE]

\* reframer_finalize
Finalize ==
    /\ alive
    /\ env.events < env.budget
    /\ Install(reframer_finalize(World))
    /\ alive' = FALSE
    /\ UNCHANGED <<ret, env>>

Next ==
    \/ \E s \in Pids : ConfigurePid(s)
    \/ \E s \in Pids : RemovePid(s)
    \/ \E s \in Pids : Play(s)
    \/ \E s \in Pids : Stop(s)
    \/ \E s \in Pids : Deliver(s)
    \/ Process
    \/ Finalize

(***************************************************************************)
(* Sessions explored                                                       *)
(***************************************************************************)
\* n packets of duration dur, one every dur ticks, sync where the index (from
\* 0) is in saps
Frames(n, dur, saps, size) ==
    [i \in 1..n |-> Pck((i - 1) * dur, (i - 1) * dur, dur,
                        IF (i - 1) \in saps THEN 1 ELSE 0, size, FALSE)]

\* video, 10 ticks per second, a sync frame every third frame
Vid == Media("visual", "avc", 10, Frames(7, 1, {0, 3, 6}, 10))
\* compressed audio, 20 ticks per second, every packet a sync point
Aud == Media("audio", "aac", 20, Frames(7, 2, 0..6, 4))
\* text, 10 ticks per second, a short cue then a long one
Txt == Media("text", "tx3g", 10,
             <<Pck(0, 0, 2, 1, 5, FALSE), Pck(2, 2, 8, 1, 5, FALSE)>>)

\* raw audio, one tick per sample, packets of 4 interleaved mono samples of
\* two bytes
RawAud == [Media("audio", "raw", 10, Frames(3, 4, 0..2, 8))
             EXCEPT !.afmt_bytes = 2, !.nb_ch = 1]
\* a still image: one packet
Img == Media("visual", "png", 10, <<Pck(0, 0, 1, 1, 10, FALSE)>>)

\* slides: two long pictures
Slide == Media("visual", "jpg", 10,
               <<Pck(0, 0, 5, 1, 10, FALSE), Pck(5, 5, 5, 1, 10, FALSE)>>)

\* the media of pid s when the session lists m
MediaOf(m) == [s \in Pids |-> IF s <= Len(m) THEN m[s] ELSE Aud]

Ranges(xs, xe) == [DefaultArgs EXCEPT !.xs = xs, !.xe = xe]

RangeSessions ==
    { [args |-> Ranges(<<DateFrac(2, 10), DateFrac(4, 10)>>,
                       <<DateFrac(4, 10), DateFrac(6, 10)>>),
       media |-> <<Vid, Aud>>],
      [args |-> Ranges(<<DateFrac(1, 10), DateFrac(3, 10)>>,
                       <<DateFrac(3, 10), DateFrac(5, 10)>>),
       media |-> <<Txt, Vid>>],
      [args |-> Ranges(<<DateFrac(1, 10), DateFrac(4, 10)>>,
                       <<DateFrac(2, 10)>>),
       media |-> <<Vid, Aud>>],
      [args |-> [Ranges(<<DateT(0, 0, 0, 200), DateT(0, 0, 0, 400)>>, <<>>)
                   EXCEPT !.splitrange = TRUE],
       media |-> <<Aud, Vid>>],
      [args |-> [Ranges(<<DateF(1), DateFrac(1, 10)>>,
                        <<DateF(3), DateFrac(3, 10)>>)
                   EXCEPT !.seeksafe = 0],
       media |-> <<Vid, Aud>>],
      [args |-> Ranges(<<DateFrac(1, 10), DateBad, DateFrac(4, 10)>>,
                       <<DateFrac(2, 10)>>),
       media |-> <<Vid, Aud>>],
      [args |-> Ranges(<<DateFrac(0, 10), DateFrac(6, 10)>>,
                       <<DateFrac(6, 10), DateFrac(10, 10)>>),
       media |-> <<RawAud, Vid>>],
      [args |-> Ranges(<<DateFrac(1, 10), DateFrac(3, 10)>>,
                       <<DateFrac(3, 10), DateFrac(5, 10)>>),
       media |-> <<Img, Vid>>],
      [args |-> Ranges(<<DateFrac(1, 10), DateFrac(3, 10)>>,
                       <<DateFrac(3, 10), DateFrac(4, 10)>>),
       media |-> <<Slide, Vid>>],
      [args |-> Ranges(<<DateFrac(6, 10)>>, <<DateFrac(7, 10)>>),
       media |-> <<Slide, Vid>>] }

\* the sessions of S, the host sending no event but the first configure and
\* play of each pid
Quiet(S) == { [args |-> z.args, media |-> z.media, events |-> 0] : z \in S }

\* the sessions of S, the host sending up to MaxEvents further events
Eventful(S) ==
    { [args |-> z.args, media |-> z.media, events |-> MaxEvents] : z \in S }

\* ranges with a missing end entry, ranges cutting text and ranges cutting raw
\* audio, with host events
RangeEvents ==
    { [args |-> Ranges(<<DateFrac(1, 10), DateFrac(4, 10)>>,
                       <<DateFrac(2, 10)>>),
       media |-> <<Vid, Aud>>],
      [args |-> Ranges(<<DateFrac(1, 10), DateFrac(3, 10)>>,
                       <<DateFrac(3, 10), DateFrac(5, 10)>>),
       media |-> <<Txt, Vid>>],
      [args |-> Ranges(<<DateFrac(0, 10), DateFrac(6, 10)>>,
                       <<DateFrac(6, 10), DateFrac(10, 10)>>),
       media |-> <<RawAud, Vid>>] }

Init ==
    \E z \in Quiet(RangeSessions) \cup Eventful(RangeEvents) :
        InitWith(z.args, MediaOf(z.media), z.events)

Spec == Init /\ [][Next]_vars

\* video with a sync frame every second frame
Vid2 == Media("visual", "avc", 10, Frames(6, 1, {0, 2, 4}, 10))
\* compressed audio, 10 ticks per second
Aud2 == Media("audio", "aac", 10, Frames(4, 2, 0..3, 4))

Split(x, round) == [DefaultArgs EXCEPT !.xs = <<x>>, !.xround = round]

\* sessions splitting at sync points, by size and by duration
SplitSessions ==
    { [args |-> Split(DateSAP, REFRAME_ROUND_BEFORE), media |-> <<Vid2, Aud2>>],
      [args |-> Split(DateS(35), REFRAME_ROUND_BEFORE), media |-> <<Vid2, Aud2>>],
      [args |-> Split(DateS(35), REFRAME_ROUND_AFTER), media |-> <<Vid2, Aud2>>],
      [args |-> Split(DateS(35), REFRAME_ROUND_CLOSEST), media |-> <<Vid2, Aud2>>],
      [args |-> Split(DateS(25), REFRAME_ROUND_CLOSEST), media |-> <<Vid2, Aud2>>],
      [args |-> Split(DateD(3, 10), REFRAME_ROUND_BEFORE), media |-> <<Vid2, Aud2>>] }

\* a split at sync points and a size split, with host events
SplitEvents ==
    { [args |-> Split(DateSAP, REFRAME_ROUND_BEFORE), media |-> <<Vid2, Aud2>>],
      [args |-> Split(DateS(35), REFRAME_ROUND_CLOSEST),
       media |-> <<Vid2, Aud2>>] }

InitSplit ==
    \E z \in Quiet(SplitSessions) \cup Eventful(SplitEvents) :
        InitWith(z.args, MediaOf(z.media), z.events)

SpecSplit == InitSplit /\ [][Next]_vars

\* short video and audio
Vid3 == Media("visual", "avc", 10, Frames(4, 1, {0, 3}, 10))
Aud3 == Media("audio", "aac", 10, Frames(4, 1, 0..3, 4))

Filter(frames, rt) == [DefaultArgs EXCEPT !.frames = frames, !.rt = rt]

\* sessions with a frame list and no range, in each real-time mode
FrameSessions ==
    { [args |-> Filter(<<3, 1>>, rt), media |-> <<Vid3, Aud3>>] :
        rt \in {REFRAME_RT_OFF, REFRAME_RT_ON, REFRAME_RT_SYNC} }

\* a frame list without and with regulation, with host events
FrameEvents ==
    { [args |-> Filter(<<3, 1>>, rt), media |-> <<Vid3, Aud3>>] :
        rt \in {REFRAME_RT_OFF, REFRAME_RT_ON} }

InitFrames ==
    \E z \in Quiet(FrameSessions) \cup Eventful(FrameEvents) :
        InitWith(z.args, MediaOf(z.media), z.events)

SpecFrames == InitFrames /\ [][Next]_vars

\* an input pid whose source cannot seek (playback mode below "seek")
NoSeek(m) == [m EXCEPT !.playback = FALSE]

SeekArgs(xs, xe, seeksafe) == [Ranges(xs, xe) EXCEPT !.seeksafe = seeksafe]

\* two ranges, the second before, after or at the end of the first, counted in
\* time or in frames, on sources that can and cannot seek
SeekSessions ==
    { [args |-> SeekArgs(<<DateFrac(4, 10), DateFrac(1, 10)>>,
                         <<DateFrac(6, 10), DateFrac(3, 10)>>, 10),
       media |-> <<NoSeek(Vid), NoSeek(Aud)>>],
      [args |-> SeekArgs(<<DateF(1), DateF(4)>>, <<DateF(3), DateF(6)>>, 10),
       media |-> <<NoSeek(Vid), NoSeek(Aud)>>],
      [args |-> SeekArgs(<<DateF(4), DateF(1)>>, <<DateF(6), DateF(3)>>, 10),
       media |-> <<NoSeek(Vid), NoSeek(Aud)>>],
      [args |-> SeekArgs(<<DateF(1), DateFrac(3, 10)>>,
                         <<DateF(3), DateFrac(5, 10)>>, 10),
       media |-> <<NoSeek(Vid), NoSeek(Aud)>>],
      [args |-> SeekArgs(<<DateFrac(1, 10), DateFrac(5, 10)>>,
                         <<DateFrac(2, 10), DateFrac(6, 10)>>, 0),
       media |-> <<Vid, Aud>>],
      [args |-> SeekArgs(<<DateFrac(4, 10), DateFrac(1, 10)>>,
                         <<DateFrac(6, 10), DateFrac(3, 10)>>, 0),
       media |-> <<Vid, Aud>>],
      [args |-> SeekArgs(<<DateFrac(1, 10), DateFrac(3, 10)>>,
                         <<DateFrac(3, 10), DateFrac(5, 10)>>, 0),
       media |-> <<Vid, Aud>>],
      [args |-> SeekArgs(<<DateF(4), DateF(1)>>, <<DateF(6), DateF(3)>>, 0),
       media |-> <<Vid, Aud>>] }

\* out-of-order ranges on a source that cannot seek and distant ranges on one
\* that can, with host events
SeekEvents ==
    { [args |-> SeekArgs(<<DateFrac(4, 10), DateFrac(1, 10)>>,
                         <<DateFrac(6, 10), DateFrac(3, 10)>>, 10),
       media |-> <<NoSeek(Vid), NoSeek(Aud)>>],
      [args |-> SeekArgs(<<DateFrac(1, 10), DateFrac(5, 10)>>,
                         <<DateFrac(2, 10), DateFrac(6, 10)>>, 0),
       media |-> <<Vid, Aud>>] }

InitSeek ==
    \E z \in Quiet(SeekSessions) \cup Eventful(SeekEvents) :
        InitWith(z.args, MediaOf(z.media), z.events)

SpecSeek == InitSeek /\ [][Next]_vars

\* an input pid whose packets are blocking references to the source's memory
Blocking(m) == [m EXCEPT !.blocking = TRUE]

\* splits at sync points and by size, one input sending blocking references
BlockSessions ==
    { [args |-> Split(DateSAP, REFRAME_ROUND_BEFORE),
       media |-> <<Blocking(Vid2), Aud2>>],
      [args |-> Split(DateSAP, REFRAME_ROUND_BEFORE),
       media |-> <<Vid2, Blocking(Aud2)>>],
      [args |-> Split(DateS(35), REFRAME_ROUND_CLOSEST),
       media |-> <<Vid2, Blocking(Aud2)>>] }

InitBlock ==
    \E z \in Quiet(BlockSessions) \cup Eventful(BlockSessions) :
        InitWith(z.args, MediaOf(z.media), z.events)

SpecBlock == InitBlock /\ [][Next]_vars

\* compressed audio, 20 ticks per second
Aud4 == Media("audio", "aac", 20, Frames(4, 2, 0..3, 4))

Regulated(rt, speed) == [DefaultArgs EXCEPT !.rt = rt, !.speed = speed]

\* sessions forwarding every packet under real-time regulation, each stream on
\* its own clock or all on the clock of one
RTSessions ==
    { [args |-> Regulated(REFRAME_RT_ON, 1), media |-> <<Vid3, Aud4>>],
      [args |-> Regulated(REFRAME_RT_ON, 2), media |-> <<Vid3, Aud4>>],
      [args |-> Regulated(REFRAME_RT_SYNC, 1), media |-> <<Vid3, Aud4>>] }

\* regulation on each stream's own clock, with host events
RTEvents ==
    { [args |-> Regulated(REFRAME_RT_ON, 1), media |-> <<Vid3, Aud4>>] }

InitRT ==
    \E z \in Quiet(RTSessions) \cup Eventful(RTEvents) :
        InitWith(z.args, MediaOf(z.media), z.events)

SpecRT == InitRT /\ [][Next]_vars

\* video with a sync frame at the start and one every fourth frame after
VidS == Media("visual", "avc", 10, Frames(6, 1, {0, 4}, 10))

\* splits at sync points: two streams with sparse sync points, and a video
\* with an audio stream of shorter packets
GopSessions ==
    { [args |-> Split(DateSAP, REFRAME_ROUND_BEFORE), media |-> <<VidS, Vid2>>],
      [args |-> Split(DateSAP, REFRAME_ROUND_BEFORE), media |-> <<Vid2, Aud4>>] }

\* the split of video and audio, with host events
GopEvents ==
    { [args |-> Split(DateSAP, REFRAME_ROUND_BEFORE), media |-> <<Vid2, Aud4>>] }

InitGop ==
    \E z \in Quiet(GopSessions) \cup Eventful(GopEvents) :
        InitWith(z.args, MediaOf(z.media), z.events)

SpecGop == InitGop /\ [][Next]_vars

\* video whose second packet is stamped before its first one
VidJ == Media("visual", "avc", 10,
              <<Pck(3, 3, 1, 1, 10, FALSE), Pck(2, 2, 1, 1, 10, FALSE),
                Pck(4, 4, 1, 1, 10, FALSE), Pck(5, 5, 1, 1, 10, FALSE),
                Pck(6, 6, 1, 1, 10, FALSE)>>)

\* a range extracted from a source with timestamps out of order
JitterSessions ==
    { [args |-> Ranges(<<DateFrac(2, 10)>>, <<DateFrac(6, 10)>>),
       media |-> <<VidJ, Aud>>] }

InitJitter ==
    \E z \in Quiet(JitterSessions) \cup Eventful(JitterSessions) :
        InitWith(z.args, MediaOf(z.media), z.events)

SpecJitter == InitJitter /\ [][Next]_vars

\* largest timestamp, duration and boundary numerator of a classified packet
MaxTs == 6
MaxDur == 2
MaxNum == 3
\* timescales of the stream and denominators of the range boundaries
Timescales == {1, 3, 10}
Dens == {1, 2, 10}

\* the arguments of one call of reframer_check_pck_range on a time range:
\* ctx holds the range, st the stream, inp the packet's timestamp and duration
InitClassify ==
    \E rt \in {RANGE_CLOSED, RANGE_OPEN}, tsc \in Timescales, abps \in {0, 2},
       sn \in 0..MaxNum, sd \in Dens, en \in 0..MaxNum, ed \in Dens,
       ts \in 0..MaxTs, dur \in 0..MaxDur :
        /\ ctx = [range_type |-> rt, start_frame_idx_plus_one |-> 0,
                  end_frame_idx_plus_one |-> 0,
                  cur_start |-> Frac(sn, sd), cur_end |-> Frac(en, ed)]
        /\ st = [ZeroStream EXCEPT !.timescale = tsc, !.abps = abps,
                                   !.sample_rate = IF abps # 0 THEN tsc ELSE 0]
        /\ inp = [ts |-> ts, dur |-> dur]
        /\ ret = [called |-> FALSE, r |-> 0, keep |-> 0]
        /\ src = << >>
        /\ refs = << >>
        /\ out = << >>
        /\ eos_out = << >>
        /\ gh = InitGh
        /\ alive = TRUE
        /\ env = [events |-> 0, now |-> 1, run |-> FALSE, budget |-> 0]

\* one call of reframer_check_pck_range on the arguments drawn
CheckPckRange ==
    /\ ~ret.called
    /\ ret' = With(reframer_check_pck_range(ctx, st, inp.ts, inp.dur, 0),
                   LAMBDA x : [called |-> TRUE, r |-> x.r, keep |-> x.keep])
    /\ UNCHANGED <<ctx, st, src, inp, refs, out, eos_out, gh, alive, env>>

SpecClassify == InitClassify /\ [][CheckPckRange]_vars

\* every stream paced on the clock of one, with host events
ClockSessions ==
    { [args |-> Regulated(REFRAME_RT_SYNC, 1), media |-> <<Vid3, Aud4>>] }

InitClock ==
    \E z \in Eventful(ClockSessions) :
        InitWith(z.args, MediaOf(z.media), z.events)

SpecClock == InitClock /\ [][Next]_vars

\* one range with two sync frames of the video in it, its end adjusted to
\* the next sync frame of the video
AdjustSessions ==
    { [args |-> [Ranges(<<DateFrac(1, 10)>>, <<DateFrac(5, 10)>>)
                   EXCEPT !.xadjust = TRUE, !.xround = r],
       media |-> <<Vid2, Aud4>>]
      : r \in {REFRAME_ROUND_AFTER} }

InitAdjust ==
    \E z \in Quiet(AdjustSessions) \cup Eventful(AdjustSessions) :
        InitWith(z.args, MediaOf(z.media), z.events)

SpecAdjust == InitAdjust /\ [][Next]_vars

\* size splits of streams of different timescales
MixedSessions ==
    { [args |-> Split(DateS(z), r), media |-> m]
      : z \in {12, 25}, r \in {REFRAME_ROUND_BEFORE, REFRAME_ROUND_CLOSEST},
        m \in {<<Aud2, Aud4>>, <<Vid2, Aud4>>} }

MixedEvents ==
    { [args |-> Split(DateS(12), REFRAME_ROUND_CLOSEST),
       media |-> <<Aud2, Aud4>>] }

InitMixed ==
    \E z \in Quiet(MixedSessions) \cup Eventful(MixedEvents) :
        InitWith(z.args, MediaOf(z.media), z.events)

SpecMixed == InitMixed /\ [][Next]_vars

\* sample counts and offsets rescaled, and the rates (sample rate, timescale)
\* they are rescaled between
Counts == {0, 1, 60, 480, 1024, 32767}
Rates == {1, 10, 441, 480, 900}

\* one sample count x of a stream of timescale to and sample rate from: st
\* holds the stream, inp the count
InitRescale ==
    \E x \in Counts, to \in Rates, from \in Rates :
        /\ ctx = [ZeroCtx(DefaultArgs) EXCEPT !.xround = REFRAME_ROUND_AFTER,
                                              !.cur_start = Frac(0, 1)]
        /\ st = [ZeroStream EXCEPT !.timescale = to, !.sample_rate = from]
        /\ inp = [x |-> x]
        /\ ret = [called |-> FALSE, offset |-> 0, ts_adj |-> 0,
                  split_start |-> 0]
        /\ src = << >>
        /\ refs = << >>
        /\ out = << >>
        /\ eos_out = << >>
        /\ gh = InitGh
        /\ alive = TRUE
        /\ env = [events |-> 0, now |-> 1, run |-> FALSE, budget |-> 0]

\* the three rescalings applied to the count drawn: the timestamp offset and
\* duration of a partial audio packet, the start adjustment of a sync packet
\* at timestamp 0, the split-start offset of a packet at timestamp 0 for a
\* start at x ticks of the sample rate
Rescale ==
    /\ ~ret.called
    /\ ret' = [called |-> TRUE,
               offset |-> rescale_samples(st, inp.x),
               ts_adj |-> start_sap_choice(ctx, st, 0, inp.x) - 1,
               split_start |-> split_start_of(st, Pck(0, 0, 1, 1, 1, FALSE),
                                              inp.x, st.sample_rate)]
    /\ UNCHANGED <<ctx, st, src, inp, refs, out, eos_out, gh, alive, env>>

SpecRescale == InitRescale /\ [][Rescale]_vars

(***************************************************************************)
(* Properties                                                              *)
(***************************************************************************)
\* references the filter holds on packet h: taken minus released
RefCount(h) == IF h \in DOMAIN refs THEN refs[h] ELSE 0

\* occurrences of h in the sequence q
RECURSIVE Occurrences(_, _)
Occurrences(q, h) ==
    IF q = <<>> THEN 0
    ELSE (IF Head(q) = h THEN 1 ELSE 0) + Occurrences(Tail(q), h)

\* slots of stream s holding packet h
SlotsOf(s, h) ==
    Occurrences(st[s].pck_queue, h)
    + (IF st[s].split_pck = h THEN 1 ELSE 0)
    + (IF st[s].reinsert_single_pck = h THEN 1 ELSE 0)

RECURSIVE SlotsUpTo(_, _)
SlotsUpTo(n, h) == IF n = 0 THEN 0 ELSE SlotsOf(n, h) + SlotsUpTo(n - 1, h)

Slots(h) == SlotsUpTo(NStreams, h)

\* every packet handle the filter may hold
Handles ==
    (DOMAIN refs)
    \cup UNION { { st[s].pck_queue[i] : i \in 1..Len(st[s].pck_queue) }
                 \cup ({st[s].split_pck, st[s].reinsert_single_pck} \ {NoPck})
                 : s \in Pids }

\* C1: retain/release balance.  For every packet, the references the filter
\* has taken minus those it has released equal the number of queue entries,
\* split slots and re-insert slots holding the packet.
C1_RefBalance == \A h \in Handles : RefCount(h) = Slots(h)

\* C2: continuity law.  On each stream the rewritten output timestamps are
\* non-decreasing, and the first packet sent in a range carries the timestamp
\* plus duration of the last packet sent in the range before.
C2_Continuity ==
    env.events = 0 =>
      \A s \in Pids : \A i \in 1..(Len(out[s]) - 1) :
         LET a == out[s][i]
             b == out[s][i + 1]
         IN /\ a.cts <= b.cts
            /\ (b.chunk # a.chunk => b.cts = a.cts + a.dur)

\* the range-end-reached timestamp (stored plus one) of stream s when the
\* range of number chunk ended, 0 when the stream did not reach the end
RangeEndOf(s, chunk) ==
    LET E == { i \in 1..Len(gh.ends) :
                 gh.ends[i].chunk = chunk /\ gh.ends[i].re[s] # 0 }
    IN IF E = {} THEN 0 ELSE gh.ends[CHOOSE i \in E : TRUE].re[s]

EndIs(date) ==
    LET pe == reframer_parse_date(date, 0)
    IN /\ ctx.range_type = RANGE_CLOSED
       /\ ctx.cur_end = pe.value
       /\ ctx.end_frame_idx_plus_one = pe.frame

\* C7: in explicit range mode the range of 0-based index i is closed with
\* entry i of the end list when there is one, else closed with entry i+1 of the
\* start list when there is one, else open.
C7_EndSelection ==
    (ctx.extract_mode = EXTRACT_RANGE
       /\ ctx.range_type \in {RANGE_CLOSED, RANGE_OPEN}
       /\ ctx.cur_range_idx >= 1)
    => LET i == ctx.cur_range_idx - 1
       IN IF i < Len(ctx.xe) THEN EndIs(ctx.xe[i + 1])
          ELSE IF i + 1 < Len(ctx.xs) THEN EndIs(ctx.xs[i + 2])
          ELSE ctx.range_type = RANGE_OPEN

\* packets are sent in a range that has no entry in the end list and ends at
\* the next start
C7_Witness ==
    /\ ctx.extract_mode = EXTRACT_RANGE
    /\ ctx.cur_range_idx >= 1
    /\ ctx.cur_range_idx > Len(ctx.xe)
    /\ ctx.cur_range_idx < Len(ctx.xs)
    /\ ctx.range_type = RANGE_CLOSED
    /\ ctx.in_range
    /\ \E s \in Pids : out[s] # <<>>

\* C10: once the range state is DONE it is DONE after every later call of
\* process (the host sending no stop, play, configure or remove in between), so
\* that no entry of the start list after an unparseable one is loaded.
C10_DoneStays ==
    [][(ctx.range_type = RANGE_DONE /\ env'.events = 0)
          => ctx'.range_type = RANGE_DONE]_vars

\* timestamps of the sync packets of stream s at or before the requested
\* start of the last range started
SyncBefore(s) ==
    { PckTs(src[s].pcks[i]) + st[s].tk_delay : i \in
        { j \in 1..Len(src[s].pcks) :
            /\ src[s].pcks[j].sap # 0
            /\ (PckTs(src[s].pcks[j]) + st[s].tk_delay) * gh.req.den
                 <= gh.req.num * st[s].timescale } }

\* C8: with xround=before, the start chosen for a stream of a time range is
\* the latest sync packet at or before the requested start (streams cut at
\* the exact start, text and raw audio, left aside).
C8_StartBefore ==
    (env.events = 0 /\ alive /\ gh.req.den # 0
       /\ ctx.xround = REFRAME_ROUND_BEFORE)
    => \A s \in Pids :
          (InTable(s) /\ gh.chosen[s] # 0 /\ st[s].abps = 0
             /\ ~st[s].can_split)
          => /\ SyncBefore(s) # {}
             /\ \A t \in SyncBefore(s) : t <= gh.chosen[s] - 1
             /\ gh.chosen[s] - 1 \in SyncBefore(s)

\* the source bytes lo .. hi - 1, in order
Bytes(lo, hi) == [j \in 1..(hi - lo) |-> lo + j - 1]

\* C5: sample-accurate split.  The fragment of a raw-audio packet sent at the
\* end of a range carries the first k samples, the fragment sent at the start
\* of the next range carries the total - k others, and the bytes copied into
\* the two fragments are the bytes of the packet, each once and in order (the
\* second copy reads and writes size - k * bytes-per-sample-frame bytes).
C5_SampleSplit ==
    env.events = 0 =>
      \A s \in Pids : \A i \in 1..Len(out[s]) :
         LET o == out[s][i]
             size == src[o.h[1]].pcks[o.h[3]].size
         IN /\ (o.kind = "first" =>
                  /\ o.alloc = o.samples * o.abps
                  /\ o.copy = Bytes(0, o.samples * o.abps))
            /\ (o.kind = "second" =>
                  /\ o.alloc = o.samples * o.abps
                  /\ o.copy = Bytes(size - o.samples * o.abps, size))
            /\ (o.kind = "second" /\ i > 1 /\ out[s][i - 1].kind = "first"
                  /\ out[s][i - 1].h = o.h
                  => out[s][i - 1].samples + o.samples = size \div o.abps)

\* the last size estimation stopped on the previous / on the current candidate
PrevChosen ==
    /\ gh.decided.end_ts = gh.decided.prev_ts
    /\ gh.decided.end_scale = gh.decided.prev_scale
    /\ gh.decided.est = gh.decided.prev_size

CurChosen ==
    /\ gh.decided.end_ts = gh.decided.cur_ts
    /\ gh.decided.end_scale = gh.decided.cur_scale
    /\ gh.decided.est = gh.decided.cur_size

\* C4: size split rounding.  When the estimation of a chunk stops with a
\* previous and a current candidate, the chunk ends at the previous one under
\* 'before', at the current one under 'after', and under 'closest' at the one
\* whose size is closer to the target; the estimated file size recorded is the
\* size of the candidate chosen.
C4_SizeRounding ==
    (gh.decided.n > 0 /\ gh.decided.has_prev)
    => LET dp == ABS(ctx.split_size - gh.decided.prev_size)
           dc == ABS(ctx.split_size - gh.decided.cur_size)
       IN /\ ctx.xround = REFRAME_ROUND_BEFORE => PrevChosen
          /\ ctx.xround = REFRAME_ROUND_AFTER => CurChosen
          /\ (ctx.xround = REFRAME_ROUND_CLOSEST /\ dp < dc) => PrevChosen
          /\ (ctx.xround = REFRAME_ROUND_CLOSEST /\ dc < dp) => CurChosen

\* under 'closest' an estimation stopped with two different candidates, the
\* previous one closer to the target
C4_Witness ==
    /\ gh.decided.n > 0 /\ gh.decided.has_prev
    /\ ctx.xround = REFRAME_ROUND_CLOSEST
    /\ gh.decided.prev_ts # gh.decided.cur_ts
    /\ ABS(ctx.split_size - gh.decided.prev_size)
         < ABS(ctx.split_size - gh.decided.cur_size)

\* C9: boundary tagging.  When range boundaries are signalled, in each range
\* or chunk exactly the first packet sent on each stream carries the file
\* number and file suffix, and the file number of the k-th chunk is k, from 1.
C9_BoundaryTag ==
    env.events = 0 =>
      \A s \in Pids : \A i \in 1..Len(out[s]) :
         LET o == out[s][i]
             first == i = 1 \/ out[s][i - 1].chunk # o.chunk
         IN /\ first <=> (o.filenum # NoProp /\ o.filesuf # <<>>)
            /\ o.filenum # NoProp => o.filenum = o.chunk

\* the source indexes, in order, of the packets among the first n of a pid
\* whose 1-based ordinal is in the frame list
RECURSIVE Listed(_)
Listed(n) ==
    IF n = 0 THEN <<>>
    ELSE IF \E i \in 1..Len(ctx.frames) : ctx.frames[i] = n
         THEN Append(Listed(n - 1), n) ELSE Listed(n - 1)

\* C6: frame allow-list.  With no range extraction and a frame list, the
\* packets forwarded on a stream are exactly the packets of that stream read
\* so far whose 1-based ordinal is in the list, and every packet handled was
\* taken from its own stream's input.
C6_FrameList ==
    (env.events = 0 /\ Len(ctx.frames) > 0 /\ ctx.range_type = RANGE_NONE)
    => \A s \in Pids :
          /\ \A i \in 1..Len(out[s]) : out[s][i].h[1] = s
          /\ [i \in 1..Len(out[s]) |-> out[s][i].h[3]] = Listed(inp[s].pos)

\* the start of the range of 1-based index k, as the start list gives it
StartOf(k) == reframer_parse_date(ctx.xs[k], 0)

\* the end of the range of 1-based index k, as the lists give it
EndOf(k) ==
    reframer_parse_date(
        range_end_date([ctx EXCEPT !.cur_range_idx = k - 1]).date, 0)

\* the range loaded last is not the first and starts, in time, strictly before
\* the end of the range before it or, in frames, at or before its start frame
GoesBack ==
    /\ ctx.cur_range_idx >= 2
    /\ ctx.cur_range_idx <= Len(ctx.xs)
    /\ LET k == ctx.cur_range_idx
           s == StartOf(k)
           e == EndOf(k - 1)
           p == StartOf(k - 1)
       IN /\ s.ok /\ s.mode = EXTRACT_RANGE
          /\ IF s.frame # 0 THEN p.frame # 0 /\ s.frame <= p.frame
             ELSE /\ s.value.den # 0 /\ e.value.den # 0
                  /\ s.value.num * e.value.den < e.value.num * s.value.den

\* C11: out-of-order ranges on a non-seekable source abort extraction.  When
\* the source cannot seek and a range other than the first starts strictly
\* before the end of the range before it (or at a frame that requires going
\* back), loading it moves the range state to DONE and no packet of that range
\* is emitted.
C11_AbortOutOfOrder ==
    [][(env'.events = 0 /\ ~ctx'.seekable /\ GoesBack')
          => /\ ctx'.range_type = RANGE_DONE
             /\ (GoesBack => out' = out)]_vars

\* C12: blocking packet references are fatal in split modes.  In sync-point
\* or size split, the call of process that fetches a blocking reference
\* returns not-supported without queueing or dropping the packet, and from
\* then on every call of process returns not-supported and no packet is
\* emitted, whatever events arrive.
C12_BlockingFatal ==
    [][/\ (ctx.eos_state # 2 /\ ctx'.eos_state = 2)
            => /\ ret' = GF_NOT_SUPPORTED
               /\ \A s \in Pids : src[s].blocking =>
                     /\ st'[s].pck_queue = st[s].pck_queue
                     /\ inp'[s].pos = inp[s].pos
       /\ ctx.eos_state = 2
            => /\ ctx'.eos_state = 2
               /\ ret' = GF_NOT_SUPPORTED
               /\ \A s \in Pids : Len(out'[s]) <= Len(out[s])]_vars

\* process has refused a blocking reference, which is still at the head of
\* its input, and a host event has arrived
C12_Witness ==
    /\ ctx.eos_state = 2
    /\ ret = GF_NOT_SUPPORTED
    /\ env.events > 0
    /\ \E s \in Pids :
          /\ src[s].blocking /\ st[s].is_playing
          /\ pid_get_packet(World, s) # NoPck
          /\ st[s].pck_queue = <<>>

\* media time in microseconds of the packet of index k of a pid carrying m,
\* as the regulation computes it for the stream S of the pid
CtsUs(m, S, k) == ((PckTs(m.pcks[k]) + S.tk_delay) * 1000000) \div S.timescale

\* the packet sent as record i of output t was let through by the gate, the
\* anchors being those of stream a after the call
GateOpen(t, i, a) ==
    LET h == out'[t][i].h
        cts_us == CtsUs(src[h[1]], st'[h[1]], h[3])
        first == st[a].sys_clock_at_init = 0 /\ i = Len(out[t]) + 1
    IN (PckTs(src[h[1]].pcks[h[3]]) # NO_TS /\ ~first
          /\ cts_us >= st'[a].cts_us_at_init)
       => (ctx'.clock_val - st'[a].sys_clock_at_init) + RT_PRECISION_US
            >= (cts_us - st'[a].cts_us_at_init) \div ABS(ctx.speed)

\* C13: pacing gate.  With real-time regulation, a packet with a known
\* timestamp that is not the first of its clock epoch and not earlier than the
\* anchor is emitted by a call of process only if
\* (wall clock - anchor wall clock) + 2000 us
\*    >= (media time - anchor media time) / |speed|;
\* a packet that is not emitted stays at the head of its stream and the later
\* packets of the stream wait behind it: the packets taken from the input of a
\* stream are the packets emitted on it, in order.
C13_PacingGate ==
    [][(env'.events = 0 /\ ctx.rt # REFRAME_RT_OFF /\ ctx.speed # 0)
          => \A s \in Pids :
                /\ \A i \in (Len(out[s]) + 1)..Len(out'[s]) :
                      GateOpen(s, i,
                               IF ctx.rt = REFRAME_RT_SYNC THEN ctx'.clock
                               ELSE s)
                /\ inp'[s].pos = Len(out'[s])
                /\ \A i \in 1..Len(out'[s]) :
                      out'[s][i].h[1] = s /\ out'[s][i].h[3] = i]_vars

\* the first stream of the table, in the order process examines them, whose
\* input holds a packet with a known timestamp; 0 when there is none
FirstExamined ==
    LET C == { i \in 1..Len(ctx.streams) :
                 /\ pid_get_packet(World, ctx.streams[i]) # NoPck
                 /\ PckTs(PckData(World,
                                  pid_get_packet(World, ctx.streams[i]))) # NO_TS }
    IN IF C = {} THEN 0
       ELSE ctx.streams[CHOOSE i \in C : \A j \in C : i <= j]

\* C14: shared clock.  In real-time mode 'sync' the first stream for which a
\* packet with a timestamp is examined becomes the reference clock, the
\* reference does not change afterwards, no other stream gets an anchor and
\* every packet emitted, of whatever stream, passed the gate computed on the
\* anchor of the reference; in mode 'on' there is no reference and every
\* packet emitted passed the gate computed on the anchor of its own stream.
C14_SharedClock ==
    [][/\ ctx.rt = REFRAME_RT_SYNC
            => /\ ctx.clock # 0 => ctx'.clock = ctx.clock
               /\ (ctx.clock = 0 /\ ctx'.clock # 0)
                     => ctx'.clock = FirstExamined
               /\ \A s \in Pids :
                     /\ s # ctx'.clock => st'[s].sys_clock_at_init = 0
                     /\ \A i \in (Len(out[s]) + 1)..Len(out'[s]) :
                           GateOpen(s, i, ctx'.clock)
       /\ ctx.rt = REFRAME_RT_ON
            => /\ ctx'.clock = 0
               /\ env'.events = 0 =>
                     \A s \in Pids :
                        \A i \in (Len(out[s]) + 1)..Len(out'[s]) :
                           /\ out'[s][i].h[1] = s
                           /\ GateOpen(s, i, s)]_vars

\* in mode 'sync' the second stream of the table is the reference, and a
\* packet of the first stream has passed the gate of the reference
C14_Witness ==
    /\ ctx.rt = REFRAME_RT_SYNC
    /\ Len(ctx.streams) = 2
    /\ ctx.clock = ctx.streams[2]
    /\ st[ctx.clock].sys_clock_at_init # 0
    /\ \E i \in 1..Len(out[ctx.clock]) :
          out[ctx.clock][i].h[1] = ctx.streams[1]

\* record i of output s is the first packet sent on s in its range or chunk
FirstOfChunk(s, i) == i = 1 \/ out[s][i - 1].chunk # out[s][i].chunk

\* explicit ranges whose boundaries are signalled, the host sending no event
SignalledRanges ==
    /\ env.events = 0
    /\ ctx.splitrange
    /\ ctx.extract_mode = EXTRACT_RANGE
    /\ Len(ctx.xs) >= 2

Sparse(s) ==
    /\ ~ctx.raw /\ ~ctx.nosap
    /\ \E k \in 1..Len(src[s].pcks) : src[s].pcks[k].sap = 0

\* stream s has a sync packet at time t (a fraction)
SyncAt(s, t) ==
    \E k \in 1..Len(src[s].pcks) :
       /\ src[s].pcks[k].sap # 0
       /\ (PckTs(src[s].pcks[k]) + st[s].tk_delay) * t.den
            = t.num * st[s].timescale

\* t is the end of the last packet of some stream: the cut of the final flush
FlushAt(t) ==
    \E s \in Pids :
       /\ InTable(s) /\ src[s].pcks # <<>>
       /\ LET p == src[s].pcks[Len(src[s].pcks)]
          IN (PckTs(p) + st[s].tk_delay
                + (IF p.dur = 0 THEN 1 ELSE p.dur)) * t.den
               = t.num * st[s].timescale

\* C16: chunk boundaries fall only on sync points.  In size split and
\* sync-point split every accepted cut point other than the final flush is the
\* timestamp of a sync packet of each stream with sparse sync points, and
\* every chunk emitted on such a stream begins with a sync packet.
C16_CutOnSync ==
    (env.events = 0 /\ ctx.extract_mode \in {EXTRACT_SAP, EXTRACT_SIZE})
    => \A s \in Pids :
          (InTable(s) /\ Sparse(s))
          => /\ (ctx.in_range /\ ~FlushAt(ctx.cur_end))
                   => SyncAt(s, ctx.cur_end)
             /\ \A i \in 1..Len(out[s]) :
                   FirstOfChunk(s, i)
                   => src[s].pcks[out[s][i].h[3]].sap # 0

\* the range loaded last is not the first and starts at a frame at or before
\* the start frame of the range before it, or at a time before the end of the
\* range before it by more than the seek safety
SeekWanted ==
    /\ ctx.cur_range_idx >= 2
    /\ ctx.cur_range_idx <= Len(ctx.xs)
    /\ LET k == ctx.cur_range_idx
           s == StartOf(k)
           e == EndOf(k - 1)
           p == StartOf(k - 1)
       IN IF s.frame # 0 THEN p.frame # 0 /\ s.frame <= p.frame
          ELSE /\ s.value.den # 0 /\ e.value.den # 0
               /\ (s.value.num + ctx.seeksafe * s.value.den) * e.value.den
                    < e.value.num * s.value.den

\* C17: seek decision.  When a range other than the first is loaded on a
\* source that can seek, STOP then PLAY are sent to every stream iff the new
\* start is a frame at or before the previous range's frame, or a time before
\* the previous end by more than the seek safety; a range starting at or after
\* the previous end causes no seek, and the first range never causes one.
C17_SeekDecision ==
    [][/\ (env'.events = 0 /\ ctx'.seekable
            /\ ctx'.cur_range_idx = ctx.cur_range_idx + 1
            /\ ctx'.range_type \in {RANGE_CLOSED, RANGE_OPEN})
          => \A s \in Pids :
                InTable(s)
                => ((inp'[s].seeks = inp[s].seeks + 1) <=> SeekWanted')
       /\ ctx'.cur_range_idx <= 1
          => \A s \in Pids : inp'[s].seeks = inp[s].seeks]_vars

\* C18: whenever the range state becomes DONE (range list exhausted, start
\* boundary that fails to parse, split size of zero, or seek refused), every
\* stream present in the stream table has its input marked discarded, is sent
\* a STOP, and has end of stream set on its output.
C18_DoneStopsAll ==
    [][(env'.events = 0 /\ ctx.range_type # RANGE_DONE
          /\ ctx'.range_type = RANGE_DONE)
          => \A i \in 1..Len(ctx'.streams) :
                /\ inp'[ctx'.streams[i]].discard
                /\ inp'[ctx'.streams[i]].stopped
                /\ eos_out'[ctx'.streams[i]]]_vars

\* a / b < c / d over the rationals, b and d positive
RatLess(a, b, c, d) == a * d < c * b

\* C19: for a stream that is not raw audio the time classifier returns 2 iff
\* the range is not open and (ts + dur) / timescale is strictly greater than
\* the range end, otherwise 0 iff ts / timescale is strictly less than the
\* range start, otherwise 1; for an open range it never returns 2; the
\* comparisons are those of the exact rationals.
C19_TimeClassify ==
    (ret.called /\ st.abps = 0)
      => /\ ret.r = IF /\ ctx.range_type # RANGE_OPEN
                       /\ RatLess(ctx.cur_end.num, ctx.cur_end.den,
                                  inp.ts + inp.dur, st.timescale) THEN 2
                    ELSE IF RatLess(inp.ts, st.timescale,
                                    ctx.cur_start.num, ctx.cur_start.den) THEN 0
                    ELSE 1
         /\ (ctx.range_type = RANGE_OPEN => ret.r # 2)

\* a packet classified past the end of a closed range although the truncated
\* quotients of its end and of the range end are equal, on a timescale that
\* differs from the denominator of the range end
C19_Witness ==
    /\ ret.called /\ st.abps = 0 /\ ret.r = 2
    /\ ctx.range_type = RANGE_CLOSED
    /\ st.timescale # ctx.cur_end.den
    /\ (inp.ts + inp.dur) \div st.timescale = ctx.cur_end.num \div ctx.cur_end.den

\* C20: the ordinal given to the frame-indexed classifier is the 1-based
\* position of the packet among the packets of its stream received during the
\* current range, each input packet counted once: during the first range the
\* count of a stream never exceeds the packets taken from its input plus the
\* one being examined, and when a later frame-indexed range is loaded the
\* count of every stream starts again from zero.
C20_FrameOrdinal ==
    [][(env'.events = 0 /\ ctx'.start_frame_idx_plus_one # 0
          /\ ctx'.range_type \in {RANGE_CLOSED, RANGE_OPEN})
          => \A s \in Pids :
                /\ (ctx'.cur_range_idx = 1 /\ inp'[s].seeks = 0)
                      => st'[s].nb_frames_range <= inp'[s].pos + 1
                /\ ctx'.cur_range_idx # ctx.cur_range_idx
                      => st'[s].nb_frames_range = 0]_vars

\* the streams of the table when the last cut point was accepted
CutStreams == { gh.cut.pre.ctx.streams[i] : i \in 1..Len(gh.cut.pre.ctx.streams) }

\* C21: in sync-point or size split, if some stream with sparse sync points
\* that is not at end of stream has no queued sync packet beyond the first
\* gop_depth+1 ones, no cut point is accepted in that invocation.
C21_WaitForSparse ==
    (env.events = 0 /\ gh.cut.n > 0)
      => \A s \in CutStreams :
            (~gh.cut.pre.st[s].all_saps /\ ~gh.cut.pre.st[s].in_eos)
              => gh.cut.cand[s] # 0

\* the streams that had a candidate when the last cut point was accepted
Candidates == { s \in CutStreams : gh.cut.cand[s] # 0 }

\* C22: outside the final flush, the cut point stored by the alignment engine
\* equals the minimum, compared as rationals ts/timescale, of the candidate
\* timestamps of all streams of both the all-sync and the sparse-sync pool.
C22_CutIsMinimum ==
    (env.events = 0 /\ gh.cut.n > 0 /\ gh.cut.scanned /\ ~gh.cut.flush)
      => /\ \E s \in Candidates :
               gh.cut.cand[s] * gh.cut.min_scale
                 = gh.cut.min_ts * gh.cut.pre.st[s].timescale
         /\ \A s \in Candidates :
               ~RatLess(gh.cut.cand[s], gh.cut.pre.st[s].timescale,
                        gh.cut.min_ts, gh.cut.min_scale)

\* the cut point accepted last and its timescale
CutTs == gh.cut.post.ctx.min_ts_computed
CutScale == gh.cut.post.ctx.min_ts_scale

\* C23: when a cut point c (in timescale s) is accepted, every stream with a
\* non-empty queue gets range_end_reached_ts = floor(c * timescale / s) + 1
\* and its range-start timestamp set to the timestamp plus delay of the head
\* of its queue, the context's current end becomes c/s, the context is in
\* range, gop_depth is 0 and each stream's first-packet-sent flag is cleared.
C23_Completion ==
    (gh.cut.n > 0 /\ CutScale # 0)
      => /\ \A s \in CutStreams :
               LET S == gh.cut.post.st[s]
                   q == gh.cut.pre.st[s].pck_queue
               IN /\ ~S.first_pck_sent
                  /\ q # <<>> =>
                       /\ S.range_end_reached_ts
                            = (CutTs * S.timescale) \div CutScale + 1
                       /\ S.ts_at_range_start_plus_one - 1
                            = PckTs(src[Head(q)[1]].pcks[Head(q)[3]])
                                + S.tk_delay
         /\ gh.cut.post.ctx.cur_end = Frac(CutTs, CutScale)
         /\ gh.cut.post.ctx.in_range
         /\ gh.cut.post.ctx.gop_depth = 0

\* a cut point accepted with queued packets on a stream whose timescale is
\* not the one of the cut point
C23_Witness ==
    /\ gh.cut.n > 0 /\ CutScale # 0
    /\ \E s \in CutStreams :
          /\ gh.cut.pre.st[s].pck_queue # <<>>
          /\ gh.cut.post.st[s].timescale # CutScale
          /\ gh.cut.pre.st[s].first_pck_sent

\* C24: whenever the alignment engine, outside a final flush, checks that all
\* streams have reached the candidate cut point, every stream that is neither
\* in the end-of-stream range-start state nor holding a singleton packet has a
\* non-empty queue: assert(pck) never fails.
\* Checked on the calls of process made while every stream of the table is
\* playing.
C24_AssertPck ==
    [][(env'.events = 0 /\ ~gh.assert_pck
          /\ \A i \in 1..Len(ctx.streams) : st[ctx.streams[i]].is_playing)
          => ~gh'.assert_pck]_vars

\* C25: when a cut point is accepted, a stream whose queue is empty gets
\* range_end_reached_ts = 0 and is in the end-of-stream range-start state
\* (range_start_computed = 2): the assertion guarding the sentinel holds.
C25_EosSentinel ==
    (env.events = 0 /\ gh.cut.n > 0)
      => \A s \in CutStreams :
            gh.cut.pre.st[s].pck_queue = <<>>
              => /\ gh.cut.post.st[s].range_end_reached_ts = 0
                 /\ gh.cut.post.st[s].range_start_computed = 2

\* timestamp of the packet of handle h on a stream of state S
TsOf(h, S) == PckTs(src[h[1]].pcks[h[3]]) + S.tk_delay

\* cumulated size of the packets queued on the stream of state S before the
\* candidate c / sc
RECURSIVE SizeBefore(_, _, _, _)
SizeBefore(q, S, c, sc) ==
    IF q = <<>> \/ ~RatLess(TsOf(Head(q), S), S.timescale, c, sc) THEN 0
    ELSE src[Head(q)[1]].pcks[Head(q)[3]].size + SizeBefore(Tail(q), S, c, sc)

RECURSIVE SumSizeBefore(_, _, _, _, _)
SumSizeBefore(streams, sts, i, c, sc) ==
    IF i > Len(streams) THEN 0
    ELSE SizeBefore(sts[streams[i]].pck_queue, sts[streams[i]], c, sc)
           + SumSizeBefore(streams, sts, i + 1, c, sc)

\* the stream of state S holds a packet at or after the candidate c / sc
HoldsAfter(S, c, sc) ==
    \E j \in 1..Len(S.pck_queue) :
        ~RatLess(TsOf(S.pck_queue[j], S), S.timescale, c, sc)

C27_ClampedTs ==
    (env.events = 0 /\ ctx.is_range_extraction)
      => \A s \in Pids : \A i \in 1..Len(out[s]) :
            LET o == out[s][i]
                p == src[o.h[1]].pcks[o.h[3]]
            IN (o.kind # "forward" /\ p.cts # NO_TS /\ p.dts # NO_TS)
                 => /\ o.cts >= 0
                    /\ o.dts >= 0
                    /\ p.cts = p.dts => o.cts = o.dts

\* C28: when a STOP event is received for a stream, the stream is marked not
\* playing and its queued lookahead packets and pending range-decision state
\* (range start computed flag, chosen sync timestamp, range-end-reached
\* timestamp) are discarded.
C28_StopDiscards ==
    [][\A s \in Pids :
          (st[s].is_playing /\ ~st'[s].is_playing)
            => /\ st'[s].pck_queue = <<>>
               /\ st'[s].range_start_computed = 0
               /\ st'[s].sap_ts_plus_one = 0
               /\ st'[s].range_end_reached_ts = 0]_vars

\* the packet of handle h on a stream of state S starts before m / sc
StartsBefore(h, S, m, sc) == RatLess(TsOf(h, S), S.timescale, m, sc)

\* the packet of handle h on a stream of state S ends after m / sc
EndsAfter(h, S, m, sc) ==
    RatLess(m, sc, TsOf(h, S) + src[h[1]].pcks[h[3]].dur, S.timescale)

\* packets removed from the head of the queue of s by the last purge, -1
\* when the queue left is not the tail of the queue before
Purged(s) ==
    LET qa == gh.purge.pre[s].pck_queue
        qb == gh.purge.post[s].pck_queue
    IN IF Len(qb) <= Len(qa) /\ qb = SubSeq(qa, Len(qa) - Len(qb) + 1, Len(qa))
       THEN Len(qa) - Len(qb) ELSE -1

Singleton(s) == Len(src[s].pcks) = 1 /\ ~src[s].blocking

\* packets sent on pid s in the range of ordinal k
SentInRange(s, k) == { i \in 1..Len(out[s]) : out[s][i].chunk = k }

RatEq(a, b, c, d) == a * d = c * b

\* C31: duration split tiling.  In duration split with duration D, once the
\* split is loaded the start cursor of the range of ordinal k (from 0) is
\* k * D and the end cursor minus the start cursor is D, in every state of a
\* run without host events.
C31_DurationTiling ==
    (env.events = 0 /\ ctx.extract_mode = EXTRACT_DUR /\ ctx.file_idx >= 1
        /\ ctx.extract_dur.den # 0 /\ ctx.cur_start.den # 0
        /\ ctx.cur_end.den # 0)
      => LET D == ctx.extract_dur
             k == ctx.file_idx - 1
         IN /\ RatEq(ctx.cur_start.num, ctx.cur_start.den, k * D.num, D.den)
            /\ RatEq(ctx.cur_end.num * ctx.cur_start.den
                        - ctx.cur_start.num * ctx.cur_end.den,
                     ctx.cur_end.den * ctx.cur_start.den, D.num, D.den)

\* the state a call of process starts from
AtCall == [World EXCEPT !.gh.div0 = FALSE, !.gh.cut = NoCut,
                        !.gh.purge = NoPurge]

\* every input has signalled end of stream and has been read to its end, an
\* output has no end of stream, and a call of process returns GF_OK and
\* leaves every field as it was: every later call does the same
Livelock ==
    /\ alive /\ env.events = 0 /\ Len(ctx.streams) > 0
    /\ \A s \in Pids : InTable(s) => st[s].is_playing /\ pid_is_eos(World, s)
    /\ \E s \in Pids : InTable(s) /\ ~eos_out[s]
    /\ LET r == reframer_process(AtCall, env.now)
       IN r.ret = GF_OK /\ r.W = AtCall

\* C32: termination.  When every input stream has delivered its packets and
\* signalled end of stream and process is called again after each return
\* without a terminal code, a call eventually returns end of stream or
\* not-supported with end of stream set on every output; in particular no
\* state is reached from which every call of process returns GF_OK and
\* changes nothing while an output still has no end of stream.
C32_Termination == ~Livelock

\* C33: chunks partition the input.  In sync-point split and size split with
\* no filter, on a run without host events, the packets emitted on a stream
\* are its first packets in input order, each once, the chunk ordinal never
\* decreases along the output (so a chunk starts with the packet that follows
\* the last one of the chunk before), and once process has returned end of
\* stream or has reached a state it no longer changes, every packet taken
\* from the input of a playing stream has been emitted.
C33_ChunksPartition ==
    (env.events = 0 /\ ctx.extract_mode \in {EXTRACT_SAP, EXTRACT_SIZE})
      => \A s \in Pids :
            /\ \A i \in 1..Len(out[s]) : out[s][i].h[3] = i
            /\ \A i \in 1..(Len(out[s]) - 1) :
                  out[s][i].chunk <= out[s][i + 1].chunk
            /\ (InTable(s) /\ st[s].is_playing
                  /\ ((alive /\ ret = GF_EOS) \/ Livelock))
                  => Len(out[s]) = inp[s].pos

\* C34: emission touches only the packet's own stream.  In real-time mode
\* sync, on a run without host events and with every packet forwarded,
\* each packet emitted is on the output of the stream it was received on,
\* and the frame counter of a stream counts the packets removed from the
\* input of that stream: sending a packet of S changes the input and the
\* counter of S and of no other stream.
C34_OwnStream ==
    (env.events = 0 /\ ctx.rt = REFRAME_RT_SYNC)
      => \A s \in Pids :
            /\ \A i \in 1..Len(out[s]) : out[s][i].h[1] = s
            /\ st[s].nb_frames = inp[s].pos

\* C35: the reference clock is always a live stream.  In every state the
\* reference clock stream of the context, when set, is a stream of the
\* stream table.
C35_ClockLive == ctx.clock # 0 => InTable(ctx.clock)

\* the outcome of check_gop_split on W: wait for more input, or the cut point
\* accepted
GopOutcome(W) ==
    LET f == gop_find_min_ts(W)
        reached == IF f.flush_all THEN "ok" ELSE gop_all_reached(f.W, 1)
        z == IF f.W.ctx.extract_mode = EXTRACT_SIZE THEN gop_size_check(f.W)
             ELSE [ret |-> FALSE, W |-> f.W]
    IN IF f.ret \/ reached # "ok" \/ z.ret
       THEN [wait |-> TRUE, ts |-> 0, scale |-> 1]
       ELSE [wait |-> FALSE, ts |-> z.W.ctx.min_ts_computed,
             scale |-> z.W.ctx.min_ts_scale]

\* the streams, queues and context check_gop_split was entered with when it
\* accepted the cut point of the last call of process
CutEntry == [World EXCEPT !.ctx = gh.cut.pre.ctx, !.st = gh.cut.pre.st]

\* W with the stream table in the opposite order
Reordered(W) ==
    [W EXCEPT !.ctx.streams = [i \in 1..Len(@) |-> @[Len(@) + 1 - i]]]

\* C36: the cut decision does not depend on stream order.  Whenever the
\* alignment engine has accepted a cut point, the same queues, end-of-stream
\* flags and gop_depth with the stream table in the opposite order give the
\* same outcome: a cut point is accepted and it is the same time.
C36_OrderIndependent ==
    gh.cut.n > 0
      => LET a == GopOutcome(CutEntry)
             b == GopOutcome(Reordered(CutEntry))
         IN /\ ~a.wait
            /\ ~b.wait
            /\ RatEq(a.ts, a.scale, b.ts, b.scale)

\* C37: a start decision is stable.  In explicit range extraction, on a run
\* without host events, once the start of the range is decided for a stream
\* (range_start_computed = 1) the start timestamp chosen for that stream
\* does not change while the range is not active.
C37_StartStable ==
    [][\A s \in Pids :
          (/\ env'.events = 0
           /\ ctx.extract_mode = EXTRACT_RANGE
           /\ st[s].range_start_computed = 1
           /\ ~ctx.in_range /\ ~ctx'.in_range
           /\ ctx'.cur_range_idx = ctx.cur_range_idx
           /\ st'[s].range_start_computed = 1)
            => st'[s].sap_ts_plus_one = st[s].sap_ts_plus_one]_vars

\* C38: candidates are compared in a common time base.  In size-split
\* refinement the test that the current candidate cut point is later than
\* the previous candidate gives the answer of the comparison of the two as
\* rationals: when the estimate is extended past a previous candidate the
\* new candidate is later than it, and when a cut is decided below the
\* target size with a previous candidate the current one is not later.
C38_CommonTimeBase ==
    [][/\ (ctx'.extract_mode = EXTRACT_SIZE
            /\ ctx'.gop_depth = ctx.gop_depth + 1
            /\ ctx.prev_min_ts_scale # 0 /\ ctx'.prev_min_ts_scale # 0)
          => RatLess(ctx.prev_min_ts_computed, ctx.prev_min_ts_scale,
                     ctx'.prev_min_ts_computed, ctx'.prev_min_ts_scale)
       /\ (ctx'.extract_mode = EXTRACT_SIZE
            /\ gh'.decided.n = gh.decided.n + 1
            /\ gh'.decided.prev_ts # 0 /\ gh'.decided.prev_scale # 0
            /\ gh'.decided.cur_scale # 0
            /\ gh'.decided.cur_size < ctx'.split_size)
          => ~RatLess(gh'.decided.prev_ts, gh'.decided.prev_scale,
                      gh'.decided.cur_ts, gh'.decided.cur_scale)]_vars

\* C39: rescaling does not wrap.  Every conversion of a sample count or
\* split offset x between sample rate and timescale (the timestamp offset and
\* duration of a partial audio packet, the start adjustment, the split-start
\* offset) yields floor(x * to / from) for all values of x, to and from of
\* the word, here whenever that quotient is itself a value of the word.
C39_RescaleExact ==
    LET exact == (inp.x * st.timescale) \div st.sample_rate
    IN (ret.called /\ exact < Word)
         => /\ ret.offset = exact
            /\ ret.ts_adj = exact
            /\ ret.split_start = exact

====
